---- MODULE Spec2Model ----
(***************************************************************************)
(* numu core: lexer tokens -> Pratt parser -> AST arena -> AST algorithms  *)
(* (clone, equals, hash, traverse, simplify) and the tree-walking          *)
(* evaluator over the global evaluation context.                           *)
(*                                                                         *)
(* Nodes live in the thread-local arena (global_pool.nodes); a Node* is an *)
(* index into it and 0 is nullptr.  A double is a record: an exact         *)
(* rational with a sign (so that -0.0 exists), an infinity, NaN, or "unk", *)
(* a finite double the model does not compute (an irrational libm result   *)
(* or a magnitude beyond MaxMag).  Inputs whose result is "unk" are left   *)
(* out of the initial states.                                              *)
(***************************************************************************)
EXTENDS Integers, Sequences, FiniteSets, TLC

VARIABLES pool, source, variables, functions, roots, last, lexer

vars == <<pool, source, variables, functions, roots, last, lexer>>

(***************************************************************************)
(* Bounds of the model.                                                    *)
(***************************************************************************)
MaxMag == 4096
PowLimit == 4
MaxArgs == 3
MaxTokens == 3
MaxKids == 2
MaxRoots == 2
MaxPool == 24
MaxRows == 2
MaxChars == 3
MaxNumeralChars == 5
MaxStringChars == 5
MaxCalls == 7

(***************************************************************************)
(* double                                                                  *)
(***************************************************************************)
RECURSIVE GCD(_, _)
GCD(a, b) == IF b = 0 THEN a ELSE GCD(b, a % b)

NaN == [cls |-> "nan", neg |-> FALSE, n |-> 0, d |-> 1]

Unk == [cls |-> "unk", neg |-> FALSE, n |-> 0, d |-> 1]

Inf(neg) == [cls |-> "inf", neg |-> neg, n |-> 0, d |-> 1]

Fin(neg, n, d) ==
    LET g == GCD(n, d) IN
    IF (n \div g) > MaxMag \/ (d \div g) > MaxMag THEN Unk
    ELSE [cls |-> "fin", neg |-> neg, n |-> n \div g, d |-> d \div g]

D(i) == IF i < 0 THEN Fin(TRUE, 0 - i, 1) ELSE Fin(FALSE, i, 1)

NegZero == [cls |-> "fin", neg |-> TRUE, n |-> 0, d |-> 1]

IsNaN(x) == x.cls = "nan"
IsUnk(x) == x.cls = "unk"
IsInf(x) == x.cls = "inf"
IsZero(x) == x.cls = "fin" /\ x.n = 0
IsInt(x) == x.cls = "fin" /\ x.d = 1
SN(x) == IF x.neg THEN 0 - x.n ELSE x.n

\* operator== on double: NaN equals nothing, -0.0 equals 0.0
DEq(a, b) ==
    IF IsNaN(a) \/ IsNaN(b) \/ IsUnk(a) \/ IsUnk(b) THEN FALSE
    ELSE IF IsZero(a) /\ IsZero(b) THEN TRUE
    ELSE a = b

\* x < 0.0 and x <= 0.0
DLtZero(x) == (x.cls = "inf" /\ x.neg) \/ (x.cls = "fin" /\ x.n > 0 /\ x.neg)
DLeZero(x) == DLtZero(x) \/ IsZero(x)

\* a < b on doubles
DLess(a, b) ==
    IF IsNaN(a) \/ IsNaN(b) \/ IsUnk(a) \/ IsUnk(b) THEN FALSE
    ELSE IF IsInf(a) THEN a.neg /\ ~(IsInf(b) /\ b.neg)
    ELSE IF IsInf(b) THEN ~b.neg
    ELSE SN(a) * b.d < SN(b) * a.d

DNeg(x) == IF IsNaN(x) \/ IsUnk(x) THEN x ELSE [x EXCEPT !.neg = ~x.neg]

DAbs(x) == IF IsNaN(x) \/ IsUnk(x) THEN x ELSE [x EXCEPT !.neg = FALSE]

DAdd(a, b) ==
    IF IsUnk(a) \/ IsUnk(b) THEN Unk
    ELSE IF IsNaN(a) \/ IsNaN(b) THEN NaN
    ELSE IF IsInf(a) /\ IsInf(b) THEN (IF a.neg = b.neg THEN a ELSE NaN)
    ELSE IF IsInf(a) THEN a
    ELSE IF IsInf(b) THEN b
    ELSE LET s == SN(a) * b.d + SN(b) * a.d IN
         IF s = 0 THEN Fin(IsZero(a) /\ IsZero(b) /\ a.neg /\ b.neg, 0, 1)
         ELSE Fin(s < 0, IF s < 0 THEN 0 - s ELSE s, a.d * b.d)

DSub(a, b) == DAdd(a, DNeg(b))

DMul(a, b) ==
    IF IsUnk(a) \/ IsUnk(b) THEN Unk
    ELSE IF IsNaN(a) \/ IsNaN(b) THEN NaN
    ELSE IF (IsInf(a) /\ IsZero(b)) \/ (IsZero(a) /\ IsInf(b)) THEN NaN
    ELSE IF IsInf(a) \/ IsInf(b) THEN Inf(a.neg # b.neg)
    ELSE Fin(a.neg # b.neg, a.n * b.n, a.d * b.d)

DDiv(a, b) ==
    IF IsUnk(a) \/ IsUnk(b) THEN Unk
    ELSE IF IsNaN(a) \/ IsNaN(b) THEN NaN
    ELSE IF (IsInf(a) /\ IsInf(b)) \/ (IsZero(a) /\ IsZero(b)) THEN NaN
    ELSE IF IsInf(a) \/ IsZero(b) THEN Inf(a.neg # b.neg)
    ELSE IF IsInf(b) THEN Fin(a.neg # b.neg, 0, 1)
    ELSE Fin(a.neg # b.neg, a.n * b.d, a.d * b.n)

\* x * x * ... * x, k factors
RECURSIVE DPowNat(_, _)
DPowNat(x, k) == IF k = 0 THEN D(1) ELSE DMul(x, DPowNat(x, k - 1))

\* std::pow
DPow(x, y) ==
    IF IsUnk(x) \/ IsUnk(y) THEN Unk
    ELSE IF IsZero(y) THEN D(1)
    ELSE IF x = D(1) THEN D(1)
    ELSE IF IsNaN(x) \/ IsNaN(y) THEN NaN
    ELSE IF IsInf(y) THEN
        IF IsInf(x) THEN (IF y.neg THEN D(0) ELSE Inf(FALSE))
        ELSE IF x.n = x.d THEN D(1)
        ELSE IF (x.n < x.d) = y.neg THEN Inf(FALSE) ELSE D(0)
    ELSE IF IsInt(y) THEN
        IF y.n > PowLimit THEN Unk
        ELSE IF y.neg THEN DDiv(D(1), DPowNat(x, y.n)) ELSE DPowNat(x, y.n)
    ELSE IF IsZero(x) \/ IsInf(x) THEN
        (IF IsZero(x) = y.neg THEN Inf(FALSE) ELSE D(0))
    ELSE IF x.neg THEN NaN
    ELSE Unk

\* std::fmod
DFmod(x, y) ==
    IF IsUnk(x) \/ IsUnk(y) THEN Unk
    ELSE IF IsNaN(x) \/ IsNaN(y) \/ IsInf(x) \/ IsZero(y) THEN NaN
    ELSE IF IsInf(y) \/ IsZero(x) THEN x
    ELSE LET q == (x.n * y.d) \div (x.d * y.n)
             r == x.n * y.d - q * y.n * x.d
         IN Fin(x.neg, r, x.d * y.d)

\* the libm functions at the arguments where the result is exact
DSin(x) ==
    IF IsUnk(x) THEN Unk
    ELSE IF IsNaN(x) \/ IsInf(x) THEN NaN
    ELSE IF IsZero(x) THEN x
    ELSE Unk

DCos(x) ==
    IF IsUnk(x) THEN Unk
    ELSE IF IsNaN(x) \/ IsInf(x) THEN NaN
    ELSE IF IsZero(x) THEN D(1)
    ELSE Unk

DTan(x) == DSin(x)

DExp(x) ==
    IF IsUnk(x) THEN Unk
    ELSE IF IsNaN(x) THEN NaN
    ELSE IF IsInf(x) THEN (IF x.neg THEN D(0) ELSE x)
    ELSE IF IsZero(x) THEN D(1)
    ELSE Unk

DLog(x) ==
    IF IsUnk(x) THEN Unk
    ELSE IF IsNaN(x) THEN NaN
    ELSE IF IsZero(x) THEN Inf(TRUE)
    ELSE IF x.neg THEN NaN
    ELSE IF IsInf(x) THEN x
    ELSE IF x = D(1) THEN D(0)
    ELSE Unk

IsSquare(k) == \E r \in 0..k : r * r = k
Root(k) == CHOOSE r \in 0..k : r * r = k

DSqrt(x) ==
    IF IsUnk(x) THEN Unk
    ELSE IF IsNaN(x) THEN NaN
    ELSE IF IsZero(x) THEN x
    ELSE IF x.neg THEN NaN
    ELSE IF IsInf(x) THEN x
    ELSE IF IsSquare(x.n) /\ IsSquare(x.d) THEN Fin(FALSE, Root(x.n), Root(x.d))
    ELSE Unk

(***************************************************************************)
(* size_t: a 64-bit word as four 16-bit limbs, least significant first.    *)
(***************************************************************************)
Limb == 65536

W(i) == <<i % Limb, (i \div Limb) % Limb, 0, 0>>

\* static_cast<size_t>(int): two's complement, so -1 is SIZE_MAX
ToSizeT(i) ==
    IF i >= 0 THEN W(i)
    ELSE LET m == (0 - i) - 1 IN
         <<(Limb - 1) - (m % Limb), (Limb - 1) - ((m \div Limb) % Limb), Limb - 1, Limb - 1>>

WAdd(a, b) ==
    LET s1 == a[1] + b[1]
        s2 == a[2] + b[2] + (s1 \div Limb)
        s3 == a[3] + b[3] + (s2 \div Limb)
        s4 == a[4] + b[4] + (s3 \div Limb)
    IN <<s1 % Limb, s2 % Limb, s3 % Limb, s4 % Limb>>

\* a * k for a small k, modulo 2^64
WMulSmall(a, k) ==
    LET s1 == a[1] * k
        s2 == a[2] * k + (s1 \div Limb)
        s3 == a[3] * k + (s2 \div Limb)
        s4 == a[4] * k + (s3 \div Limb)
    IN <<s1 % Limb, s2 % Limb, s3 % Limb, s4 % Limb>>

\* a << 40, modulo 2^64
WShl40(a) == LET b == WMulSmall(a, 256) IN <<0, 0, b[1], b[2]>>

RECURSIVE XorBits(_, _, _)
XorBits(x, y, k) ==
    IF k = 0 THEN 0
    ELSE (IF (x % 2) # (y % 2) THEN 1 ELSE 0) + 2 * XorBits(x \div 2, y \div 2, k - 1)

WXor(a, b) ==
    <<XorBits(a[1], b[1], 16), XorBits(a[2], b[2], 16),
      XorBits(a[3], b[3], 16), XorBits(a[4], b[4], 16)>>

\* static constexpr size_t prime = 0x100000001B3 = 2^40 + 0x1B3
prime == <<435, 0, 256, 0>>

WMulPrime(a) == WAdd(WMulSmall(a, 435), WShl40(a))

(***************************************************************************)
(* The AST model: enums, the arena and the node factories.                 *)
(***************************************************************************)
NodeType == <<"NUMBER", "BOOLEAN", "STRING", "VARIABLE", "BINARY_OP", "UNARY_OP",
              "FUNCTION", "MATRIX", "TENSOR", "ASSIGNMENT", "BLOCK", "IF", "WHILE",
              "FOR", "RETURN">>

BinaryOp == <<"ADD", "SUB", "MUL", "DIV", "MOD", "POW",
              "EQ", "NEQ", "LT", "LEQ", "GT", "GEQ", "AND", "OR">>

UnaryOp == <<"NEGATE", "NOT", "SIN", "COS", "TAN", "ASIN", "ACOS", "ATAN",
             "EXP", "LOG", "SQRT", "TRANSPOSE", "DETERMINANT", "INVERSE">>

\* static_cast<size_t>(enumerator)
EnumIndex(enum, e) == (CHOOSE i \in 1..Len(enum) : enum[i] = e) - 1

nullptr == 0

\* NodePool::create: the node is appended to the arena, its address returned
create(p, node) == [pool |-> Append(p, node), ptr |-> Len(p) + 1]

\* The `value` members of BooleanNode, StringNode and ReturnNode are named
\* bool_value, string_value and return_value: records over the same fields
\* must hold values of one kind.
NumberNode(value) == [type |-> "NUMBER", value |-> value]
BooleanNode(value) == [type |-> "BOOLEAN", bool_value |-> value]
StringNode(value) == [type |-> "STRING", string_value |-> value]
VariableNode(name) == [type |-> "VARIABLE", name |-> name]
BinaryOpNode(op, left, right) ==
    [type |-> "BINARY_OP", op |-> op, left |-> left, right |-> right]
UnaryOpNode(op, operand) == [type |-> "UNARY_OP", op |-> op, operand |-> operand]
FunctionNode(name, args) == [type |-> "FUNCTION", name |-> name, args |-> args]
MatrixNode(elements) == [type |-> "MATRIX", elements |-> elements]
TensorNode(dims, values) == [type |-> "TENSOR", dims |-> dims, values |-> values]
AssignmentNode(name, value) == [type |-> "ASSIGNMENT", name |-> name, value |-> value]
BlockNode(statements) == [type |-> "BLOCK", statements |-> statements]
IfNode(condition, then_branch, else_branch) ==
    [type |-> "IF", condition |-> condition, then_branch |-> then_branch,
     else_branch |-> else_branch]
WhileNode(condition, body) == [type |-> "WHILE", condition |-> condition, body |-> body]
ForNode(initializer, condition, increment, body) ==
    [type |-> "FOR", initializer |-> initializer, condition |-> condition,
     increment |-> increment, body |-> body]
ReturnNode(value) == [type |-> "RETURN", return_value |-> value]

\* the Node* fields of a node, in declaration order
ChildPtrs(node) ==
    CASE node.type = "BINARY_OP" -> <<node.left, node.right>>
      [] node.type = "UNARY_OP" -> <<node.operand>>
      [] node.type = "FUNCTION" -> node.args
      [] node.type = "MATRIX" ->
           LET RECURSIVE Flat(_)
               Flat(rows) == IF rows = <<>> THEN <<>> ELSE Head(rows) \o Flat(Tail(rows))
           IN Flat(node.elements)
      [] node.type = "TENSOR" -> node.values
      [] node.type = "ASSIGNMENT" -> <<node.value>>
      [] node.type = "BLOCK" -> node.statements
      [] node.type = "IF" -> <<node.condition, node.then_branch, node.else_branch>>
      [] node.type = "WHILE" -> <<node.condition, node.body>>
      [] node.type = "FOR" ->
           <<node.initializer, node.condition, node.increment, node.body>>
      [] node.type = "RETURN" -> <<node.return_value>>
      [] OTHER -> <<>>

\* `node` with its Node* fields replaced, in declaration order, by those of c
WithChildren(node, c) ==
    CASE node.type = "BINARY_OP" -> [node EXCEPT !.left = c[1], !.right = c[2]]
      [] node.type = "UNARY_OP" -> [node EXCEPT !.operand = c[1]]
      [] node.type = "FUNCTION" -> [node EXCEPT !.args = c]
      [] node.type = "MATRIX" ->
           LET RECURSIVE Shape(_, _)
               Shape(rows, cs) ==
                   IF rows = <<>> THEN <<>>
                   ELSE <<SubSeq(cs, 1, Len(Head(rows)))>>
                        \o Shape(Tail(rows), SubSeq(cs, Len(Head(rows)) + 1, Len(cs)))
           IN [node EXCEPT !.elements = Shape(node.elements, c)]
      [] node.type = "TENSOR" -> [node EXCEPT !.values = c]
      [] node.type = "ASSIGNMENT" -> [node EXCEPT !.value = c[1]]
      [] node.type = "BLOCK" -> [node EXCEPT !.statements = c]
      [] node.type = "IF" ->
           [node EXCEPT !.condition = c[1], !.then_branch = c[2], !.else_branch = c[3]]
      [] node.type = "WHILE" -> [node EXCEPT !.condition = c[1], !.body = c[2]]
      [] node.type = "FOR" ->
           [node EXCEPT !.initializer = c[1], !.condition = c[2],
                        !.increment = c[3], !.body = c[4]]
      [] node.type = "RETURN" -> [node EXCEPT !.return_value = c[1]]
      [] OTHER -> node

(***************************************************************************)
(* Trees as values: a node record whose Node* fields hold trees, Absent    *)
(* standing for nullptr.  Build allocates a tree in the arena through the  *)
(* factories, children before their parent; TreeOf reads one back.         *)
(***************************************************************************)
Absent == [type |-> "NULL"]

RECURSIVE Build(_, _)
RECURSIVE BuildSeq(_, _)
Build(p, t) ==
    IF t = Absent THEN [pool |-> p, ptr |-> nullptr]
    ELSE LET ks == BuildSeq(p, ChildPtrs(t)) IN create(ks.pool, WithChildren(t, ks.ptrs))

BuildSeq(p, ts) ==
    IF ts = <<>> THEN [pool |-> p, ptrs |-> <<>>]
    ELSE LET h == Build(p, Head(ts))
             r == BuildSeq(h.pool, Tail(ts))
         IN [ptrs |-> <<h.ptr>> \o r.ptrs, pool |-> r.pool]

RECURSIVE TreeOf(_, _)
RECURSIVE TreeOfSeq(_, _)
TreeOf(p, ptr) ==
    IF ptr = nullptr THEN Absent
    ELSE WithChildren(p[ptr], TreeOfSeq(p, ChildPtrs(p[ptr])))

TreeOfSeq(p, ptrs) ==
    IF ptrs = <<>> THEN <<>>
    ELSE <<TreeOf(p, Head(ptrs))>> \o TreeOfSeq(p, Tail(ptrs))

(***************************************************************************)
(* clone                                                                   *)
(***************************************************************************)
Made(c) == [pool |-> c.pool, ptr |-> c.ptr, thrown |-> FALSE]
Threw(p) == [pool |-> p, ptr |-> nullptr, thrown |-> TRUE]

RECURSIVE clone(_, _)
RECURSIVE cloneSeq(_, _)
RECURSIVE cloneRows(_, _)

\* for (auto* x : xs) out.push_back(clone(x));
cloneSeq(p, xs) ==
    IF xs = <<>> THEN [pool |-> p, ptrs |-> <<>>, thrown |-> FALSE]
    ELSE LET h == clone(p, Head(xs)) IN
         IF h.thrown THEN [pool |-> h.pool, ptrs |-> <<>>, thrown |-> TRUE]
         ELSE LET r == cloneSeq(h.pool, Tail(xs)) IN
              [pool |-> r.pool, ptrs |-> <<h.ptr>> \o r.ptrs, thrown |-> r.thrown]

\* for (const auto& row : mat->elements) { ... elems.push_back(new_row); }
cloneRows(p, rows) ==
    IF rows = <<>> THEN [pool |-> p, rows |-> <<>>, thrown |-> FALSE]
    ELSE LET h == cloneSeq(p, Head(rows)) IN
         IF h.thrown THEN [pool |-> h.pool, rows |-> <<>>, thrown |-> TRUE]
         ELSE LET r == cloneRows(h.pool, Tail(rows)) IN
              [pool |-> r.pool, rows |-> <<h.ptrs>> \o r.rows, thrown |-> r.thrown]

\* The operands of BinaryOpNode::create are cloned left first here; C++ leaves
\* their order unspecified, which changes addresses only.
clone(p, node) ==
    IF node = nullptr THEN [pool |-> p, ptr |-> nullptr, thrown |-> FALSE]
    ELSE LET n == p[node] IN
    CASE n.type = "NUMBER" -> Made(create(p, NumberNode(n.value)))
      [] n.type = "VARIABLE" -> Made(create(p, VariableNode(n.name)))
      [] n.type = "BINARY_OP" ->
           LET l == clone(p, n.left) IN
           IF l.thrown THEN l
           ELSE LET r == clone(l.pool, n.right) IN
                IF r.thrown THEN r
                ELSE Made(create(r.pool, BinaryOpNode(n.op, l.ptr, r.ptr)))
      [] n.type = "UNARY_OP" ->
           LET o == clone(p, n.operand) IN
           IF o.thrown THEN o ELSE Made(create(o.pool, UnaryOpNode(n.op, o.ptr)))
      [] n.type = "FUNCTION" ->
           LET a == cloneSeq(p, n.args) IN
           IF a.thrown THEN Threw(a.pool)
           ELSE Made(create(a.pool, FunctionNode(n.name, a.ptrs)))
      [] n.type = "MATRIX" ->
           LET e == cloneRows(p, n.elements) IN
           IF e.thrown THEN Threw(e.pool) ELSE Made(create(e.pool, MatrixNode(e.rows)))
      [] n.type = "TENSOR" ->
           LET v == cloneSeq(p, n.values) IN
           IF v.thrown THEN Threw(v.pool)
           ELSE Made(create(v.pool, TensorNode(n.dims, v.ptrs)))
      [] OTHER -> Threw(p)   \* std::runtime_error("Unknown node type in clone")

(***************************************************************************)
(* equals: "true", "false", or "throw" (std::runtime_error)                *)
(***************************************************************************)
Bool(b) == IF b THEN "true" ELSE "false"

\* the comparison of the fields that are not Node*, per variant
equals_fields(na, nb) ==
    CASE na.type = "NUMBER" -> DEq(na.value, nb.value)
      [] na.type = "VARIABLE" -> na.name = nb.name
      [] na.type = "BINARY_OP" -> na.op = nb.op
      [] na.type = "UNARY_OP" -> na.op = nb.op
      [] na.type = "FUNCTION" -> na.name = nb.name /\ Len(na.args) = Len(nb.args)
      [] na.type = "MATRIX" -> Len(na.elements) = Len(nb.elements)
      [] na.type = "TENSOR" -> na.dims = nb.dims /\ Len(na.values) = Len(nb.values)
      [] OTHER -> FALSE

RECURSIVE equals(_, _, _)
RECURSIVE equalsSeq(_, _, _)
RECURSIVE equalsRows(_, _, _)

\* for (i...) if (!equals(xs[i], ys[i])) return false;  return true;
equalsSeq(p, xs, ys) ==
    IF xs = <<>> THEN "true"
    ELSE LET e == equals(p, Head(xs), Head(ys)) IN
         IF e = "true" THEN equalsSeq(p, Tail(xs), Tail(ys)) ELSE e

equalsRows(p, ra, rb) ==
    IF ra = <<>> THEN "true"
    ELSE IF Len(Head(ra)) # Len(Head(rb)) THEN "false"
    ELSE LET e == equalsSeq(p, Head(ra), Head(rb)) IN
         IF e = "true" THEN equalsRows(p, Tail(ra), Tail(rb)) ELSE e

equals(p, a, b) ==
    IF a = b THEN "true"
    ELSE IF a = nullptr \/ b = nullptr THEN "false"
    ELSE IF p[a].type # p[b].type THEN "false"
    ELSE LET na == p[a]
             nb == p[b]
         IN
    CASE na.type \in {"NUMBER", "VARIABLE"} -> Bool(equals_fields(na, nb))
      [] na.type = "BINARY_OP" ->
           IF ~equals_fields(na, nb) THEN "false"
           ELSE equalsSeq(p, <<na.left, na.right>>, <<nb.left, nb.right>>)
      [] na.type = "UNARY_OP" ->
           IF ~equals_fields(na, nb) THEN "false" ELSE equals(p, na.operand, nb.operand)
      [] na.type = "FUNCTION" ->
           IF ~equals_fields(na, nb) THEN "false" ELSE equalsSeq(p, na.args, nb.args)
      [] na.type = "MATRIX" ->
           IF ~equals_fields(na, nb) THEN "false"
           ELSE equalsRows(p, na.elements, nb.elements)
      [] na.type = "TENSOR" ->
           IF ~equals_fields(na, nb) THEN "false" ELSE equalsSeq(p, na.values, nb.values)
      [] OTHER -> "throw"   \* std::runtime_error("Unknown node type in equals")

(***************************************************************************)
(* hash                                                                    *)
(***************************************************************************)
\* The identifiers and string values of the model, for std::hash<std::string>
Strings == <<"f", "g", "x", "y", "s", "abs", "min", "max", "sum", "avg", "sin", "cos",
             "tan", "exp", "log", "sqrt", "pow", "pi", "e", "inf", "square", "foo">>

\* std::hash<std::string>: distinct values for the strings of the model
hash_string(str) == W(EnumIndex(Strings, str) + 1)

\* a hash of the bit pattern alone, which tells 0.0 from -0.0
hash_double_bits(v) ==
    <<v.n, v.d, EnumIndex(<<"fin", "inf", "nan", "unk">>, v.cls), IF v.neg THEN 1 ELSE 0>>

\* std::hash<double>: 0 for both zeros, as the library must give values that
\* compare equal the same hash; otherwise a function of the representation
hash_double(v) ==
    IF IsZero(v) THEN W(0)
    ELSE <<v.n, v.d, EnumIndex(<<"fin", "inf", "nan", "unk">>, v.cls), IF v.neg THEN 1 ELSE 0>>

\* std::hash<size_t>
hash_size_t(i) == W(i)

RECURSIVE hash(_, _)
RECURSIVE hashXor(_, _, _)
RECURSIVE hashDims(_, _)

\* for (auto* x : xs) h ^= (hash(x) * prime);
hashXor(p, h, xs) ==
    IF xs = <<>> THEN [thrown |-> FALSE, h |-> h]
    ELSE LET c == hash(p, Head(xs)) IN
         IF c.thrown THEN c ELSE hashXor(p, WXor(h, WMulPrime(c.h)), Tail(xs))

\* for (auto dim : tensor->dims) h ^= (std::hash<size_t>{}(dim) + prime);
hashDims(h, dims) ==
    IF dims = <<>> THEN h
    ELSE hashDims(WXor(h, WAdd(hash_size_t(Head(dims)), prime)), Tail(dims))

hash(p, node) ==
    IF node = nullptr THEN [thrown |-> FALSE, h |-> W(0)]
    ELSE LET n == p[node]
             h0 == W(EnumIndex(NodeType, n.type))
         IN
    CASE n.type = "NUMBER" ->
           [thrown |-> FALSE, h |-> WXor(h0, WAdd(hash_double(n.value), prime))]
      [] n.type = "VARIABLE" ->
           [thrown |-> FALSE, h |-> WXor(h0, WAdd(hash_string(n.name), prime))]
      [] n.type = "BINARY_OP" ->
           hashXor(p, WXor(h0, WAdd(W(EnumIndex(BinaryOp, n.op)), prime)),
                   <<n.left, n.right>>)
      [] n.type = "UNARY_OP" ->
           hashXor(p, WXor(h0, WAdd(W(EnumIndex(UnaryOp, n.op)), prime)), <<n.operand>>)
      [] n.type = "FUNCTION" ->
           hashXor(p, WXor(h0, WAdd(hash_string(n.name), prime)), n.args)
      [] n.type = "MATRIX" -> hashXor(p, h0, ChildPtrs(n))
      [] n.type = "TENSOR" -> hashXor(p, hashDims(h0, n.dims), n.values)
      [] OTHER -> [thrown |-> TRUE, h |-> W(0)]   \* "Unknown node type in hash"

(***************************************************************************)
(* traverse: the sequence of nodes the visitor is called on                *)
(***************************************************************************)
\* the non-null pointers of xs, last first: what the reverse loops push
PushReversed(stack, xs) ==
    LET RECURSIVE Push(_, _)
        Push(st, i) ==
            IF i = 0 THEN st
            ELSE Push(IF xs[i] # nullptr THEN Append(st, xs[i]) ELSE st, i - 1)
    IN Push(stack, Len(xs))

\* what one iteration pushes for the node it popped
traverse_push(stack, n) ==
    IF n.type \in {"BINARY_OP", "UNARY_OP", "FUNCTION", "MATRIX", "TENSOR"}
    THEN PushReversed(stack, ChildPtrs(n))
    ELSE stack   \* default: break;

RECURSIVE traverse_loop(_, _, _)
traverse_loop(p, stack, visited) ==
    IF stack = <<>> THEN visited
    ELSE LET current == stack[Len(stack)]
             popped == SubSeq(stack, 1, Len(stack) - 1)
         IN traverse_loop(p, traverse_push(popped, p[current]), Append(visited, current))

traverse(p, node) == IF node = nullptr THEN <<>> ELSE traverse_loop(p, <<node>>, <<>>)

(***************************************************************************)
(* simplify                                                                *)
(***************************************************************************)
\* the fold of a BinaryOp over two Number operands (double result = 0; switch)
fold_binary(op, lval, rval) ==
    CASE op = "ADD" -> DAdd(lval, rval)
      [] op = "SUB" -> DSub(lval, rval)
      [] op = "MUL" -> DMul(lval, rval)
      [] op = "DIV" -> DDiv(lval, rval)
      [] op = "POW" -> DPow(lval, rval)
      [] OTHER -> D(0)

fold_unary(op, val) ==
    CASE op = "NEGATE" -> DNeg(val)
      [] op = "SIN" -> DSin(val)
      [] op = "COS" -> DCos(val)
      [] op = "TAN" -> DTan(val)
      [] op = "EXP" -> DExp(val)
      [] op = "LOG" -> DLog(val)
      [] op = "SQRT" -> DSqrt(val)
      [] OTHER -> D(0)

\* `thrown` is "none", "runtime_error" (from clone) or "undefined" (left->type
\* read through a null pointer)
RECURSIVE simplify(_, _)
simplify(p, node) ==
    IF node = nullptr THEN [pool |-> p, ptr |-> nullptr, thrown |-> "none"]
    ELSE LET n == p[node] IN
    CASE n.type = "BINARY_OP" ->
           LET l == simplify(p, n.left) IN
           IF l.thrown # "none" THEN l
           ELSE LET r == simplify(l.pool, n.right) IN
           IF r.thrown # "none" THEN r
           ELSE IF l.ptr = nullptr \/ r.ptr = nullptr
                THEN [pool |-> r.pool, ptr |-> nullptr, thrown |-> "undefined"]
           ELSE IF r.pool[l.ptr].type = "NUMBER" /\ r.pool[r.ptr].type = "NUMBER"
                THEN LET c == create(r.pool, NumberNode(fold_binary(n.op,
                                        r.pool[l.ptr].value, r.pool[r.ptr].value)))
                     IN [pool |-> c.pool, ptr |-> c.ptr, thrown |-> "none"]
           ELSE LET c == create(r.pool, BinaryOpNode(n.op, l.ptr, r.ptr))
                IN [pool |-> c.pool, ptr |-> c.ptr, thrown |-> "none"]
      [] n.type = "UNARY_OP" ->
           LET o == simplify(p, n.operand) IN
           IF o.thrown # "none" THEN o
           ELSE IF o.ptr = nullptr
                THEN [pool |-> o.pool, ptr |-> nullptr, thrown |-> "undefined"]
           ELSE IF o.pool[o.ptr].type = "NUMBER"
                THEN LET c == create(o.pool,
                                     NumberNode(fold_unary(n.op, o.pool[o.ptr].value)))
                     IN [pool |-> c.pool, ptr |-> c.ptr, thrown |-> "none"]
           ELSE LET c == create(o.pool, UnaryOpNode(n.op, o.ptr))
                IN [pool |-> c.pool, ptr |-> c.ptr, thrown |-> "none"]
      [] OTHER ->
           LET c == clone(p, node) IN
           [pool |-> c.pool, ptr |-> c.ptr,
            thrown |-> IF c.thrown THEN "runtime_error" ELSE "none"]

(***************************************************************************)
(* Lexer (lex.cpp).  The source buffer is the sequence of its characters,  *)
(* a string_view into it the sequence of the characters it spans; pos_     *)
(* counts from 0 as in the code.  A lexing function yields                 *)
(* [lexer, thrown, error, token, oob]: the lexer as the call leaves it,    *)
(* the exception in flight, the token returned, and whether the call read  *)
(* source_ at an index >= its length.  `junk` stands for what the build    *)
(* finds where the code reads outside the buffer (junk.char) or reads a    *)
(* double it never wrote (junk.value).  The value of a NUMBER token is     *)
(* "unk" where the model does not compute the conversion; no step of the   *)
(* lexer reads it.                                                         *)
(***************************************************************************)
DigitValue ==
    [c \in {"0", "1", "2", "3", "4", "5", "6", "7", "8", "9"} |->
        CASE c = "0" -> 0 [] c = "1" -> 1 [] c = "2" -> 2 [] c = "3" -> 3
          [] c = "4" -> 4 [] c = "5" -> 5 [] c = "6" -> 6 [] c = "7" -> 7
          [] c = "8" -> 8 [] c = "9" -> 9]

isdigit(c) == c \in DOMAIN DigitValue

isalpha(c) ==
    c \in {"a", "b", "c", "d", "e", "f", "g", "h", "i", "j", "k", "l", "m",
           "n", "o", "p", "q", "r", "s", "t", "u", "v", "w", "x", "y", "z",
           "A", "B", "C", "D", "E", "F", "G", "H", "I", "J", "K", "L", "M",
           "N", "O", "P", "Q", "R", "S", "T", "U", "V", "W", "X", "Y", "Z"}

isalnum(c) == isalpha(c) \/ isdigit(c)

keywords ==
    (<<"l", "e", "t">> :> "LET") @@ (<<"f", "n">> :> "FN") @@ (<<"i", "f">> :> "IF")
    @@ (<<"e", "l", "s", "e">> :> "ELSE") @@ (<<"f", "o", "r">> :> "FOR")
    @@ (<<"w", "h", "i", "l", "e">> :> "WHILE")
    @@ (<<"r", "e", "t", "u", "r", "n">> :> "RETURN")
    @@ (<<"t", "r", "u", "e">> :> "TRUE") @@ (<<"f", "a", "l", "s", "e">> :> "FALSE")
    @@ (<<"i", "n", "f">> :> "INF") @@ (<<"n", "a", "n">> :> "NAN")
    @@ (<<"p", "i">> :> "PI") @@ (<<"e">> :> "E")

single_char_tokens ==
    ("+" :> "PLUS") @@ ("-" :> "MINUS") @@ ("*" :> "STAR") @@ ("/" :> "SLASH")
    @@ ("%" :> "PERCENT") @@ ("^" :> "CARET") @@ ("=" :> "EQUAL") @@ ("<" :> "LESS")
    @@ (">" :> "GREATER") @@ ("!" :> "BANG") @@ ("(" :> "LPAREN") @@ (")" :> "RPAREN")
    @@ ("[" :> "LBRACKET") @@ ("]" :> "RBRACKET") @@ ("{" :> "LBRACE")
    @@ ("}" :> "RBRACE") @@ ("," :> "COMMA") @@ ("." :> "DOT") @@ (":" :> "COLON")
    @@ (";" :> "SEMI")

multi_char_ops ==
    (<<"=", "=">> :> "EQEQ") @@ (<<"!", "=">> :> "NEQ") @@ (<<"<", "=">> :> "LEQ")
    @@ (<<">", "=">> :> "GEQ") @@ (<<"-", ">">> :> "ARROW") @@ (<<"*", "*">> :> "POW")

is_identifier_start(c) == isalpha(c) \/ c = "_"

is_identifier_continue(c) == isalnum(c) \/ c = "_"

\* Lexer::Lexer
Lexer(src) == [source_ |-> src, pos_ |-> 0, line_ |-> 1, col_ |-> 1]

\* source_[i]
CharAt(lx, i) == lx.source_[i + 1]

\* std::string_view::substr(pos, n)
substr(s, pos, n) == SubSeq(s, pos + 1, IF pos + n > Len(s) THEN Len(s) ELSE pos + n)

\* pos_++; col_++;
Bump(lx) == [lx EXCEPT !.pos_ = @ + 1, !.col_ = @ + 1]

\* Token{type, text, value, line, column}; the column is the value of the
\* size_t expression the code writes
LexToken(type, text, value, line, column) ==
    [type |-> type, text |-> text, value |-> value, line |-> line, column |-> column]

NoToken == LexToken("none", <<>>, D(0), 0, W(0))

NoError == [message |-> "", detail |-> "", line |-> 0, column |-> 0]

Returned(lx, tok, oob) ==
    [lexer |-> lx, thrown |-> "none", error |-> NoError, token |-> tok, oob |-> oob]

\* throw LexError{message, line_, col_}
Lexer_throw_error(lx, message, detail, oob) ==
    [lexer |-> lx, thrown |-> "LexError",
     error |-> [message |-> message, detail |-> detail, line |-> lx.line_,
                column |-> lx.col_],
     token |-> NoToken, oob |-> oob]

make_token(lx, type) == LexToken(type, <<>>, D(0), lx.line_, W(lx.col_))

RECURSIVE skip_whitespace(_)
\* skip_whitespace that steps over the end of the buffer
skip_whitespace_overrun(lx) ==
    IF lx.pos_ >= Len(lx.source_) THEN Bump(lx)
    ELSE IF CharAt(lx, lx.pos_) \in {" ", "\t", "\n", "\r"}
    THEN skip_whitespace([lx EXCEPT !.pos_ = @ + 1])
    ELSE lx

skip_whitespace(lx) ==
    IF lx.pos_ >= Len(lx.source_) THEN lx
    ELSE LET c == CharAt(lx, lx.pos_) IN
         IF c = " " \/ c = "\t" THEN skip_whitespace(Bump(lx))
         ELSE IF c = "\n"
         THEN skip_whitespace([lx EXCEPT !.pos_ = @ + 1, !.line_ = @ + 1, !.col_ = 1])
         ELSE IF c = "\r"
         THEN skip_whitespace(
                [lx EXCEPT !.pos_ = IF lx.pos_ + 1 < Len(lx.source_)
                                       /\ CharAt(lx, lx.pos_ + 1) = "\n"
                                    THEN @ + 2 ELSE @ + 1,
                           !.line_ = @ + 1, !.col_ = 1])
         ELSE lx

RECURSIVE skip_comment(_)
skip_comment(lx) ==
    IF lx.pos_ < Len(lx.source_) /\ CharAt(lx, lx.pos_) # "\n"
    THEN skip_comment(Bump(lx))
    ELSE lx

\* the number of leading characters of s that are digits
RECURSIVE DigitRun(_)
DigitRun(s) == IF s # <<>> /\ isdigit(Head(s)) THEN 1 + DigitRun(Tail(s)) ELSE 0

\* the number the digits of s write in base ten
RECURSIVE DigitsValue(_)
DigitsValue(s) ==
    IF s = <<>> THEN 0 ELSE 10 * DigitsValue(SubSeq(s, 1, Len(s) - 1)) + DigitValue[s[Len(s)]]

RECURSIVE StripLeadingZeros(_)
StripLeadingZeros(s) ==
    IF s # <<>> /\ Head(s) = "0" THEN StripLeadingZeros(Tail(s)) ELSE s

RECURSIVE StripTrailingZeros(_)
StripTrailingZeros(s) ==
    IF s # <<>> /\ s[Len(s)] = "0" THEN StripTrailingZeros(SubSeq(s, 1, Len(s) - 1)) ELSE s

RECURSIVE Pow10(_)
Pow10(k) == IF k = 0 THEN 1 ELSE 10 * Pow10(k - 1)

\* 0.s >= 0.t, for digit strings s and t
SigGeq(s, t) ==
    LET at(u, i) == IF i <= Len(u) THEN DigitValue[u[i]] ELSE 0
        n == IF Len(s) > Len(t) THEN Len(s) ELSE Len(t)
        diff == {i \in 1..n : at(s, i) # at(t, i)}
    IN IF diff = {} THEN TRUE
       ELSE LET i == CHOOSE j \in diff : \A k \in diff : j <= k IN at(s, i) > at(t, i)

\* the decimals that round to infinity: 0.sig * 10^order at or above
\* DBL_MAX plus half an ulp, 0.17976931348623158079e309
Overflows(sig, order) ==
    \/ order > 309
    \/ /\ order = 309
       /\ SigGeq(sig, <<"1", "7", "9", "7", "6", "9", "3", "1", "3", "4", "8", "6", "2",
                        "3", "1", "5", "8", "0", "7", "9">>)

\* the decimals that round to zero: at or below half the least denormal,
\* 0.24703282292062327208e-323
Underflows(sig, order) ==
    \/ order < 0 - 323
    \/ /\ order = 0 - 323
       /\ SigGeq(<<"2", "4", "7", "0", "3", "2", "8", "2", "2", "9", "2", "0", "6", "2",
                   "3", "2", "7", "2", "0", "8">>, sig)

\* the double nearest to 0.sig * 10^order, where the model computes it: an
\* integer or a binary fraction within MaxMag
DecimalValue(sig, order) ==
    LET m == StripTrailingZeros(sig)
        scale == order - Len(m)
    IN IF m = <<>> THEN D(0)
       ELSE IF Len(m) > 4 \/ scale > 4 \/ scale < 0 - 4 THEN Unk
       ELSE IF scale >= 0 THEN Fin(FALSE, DigitsValue(m) * Pow10(scale), 1)
       ELSE LET v == Fin(FALSE, DigitsValue(m), Pow10(0 - scale)) IN
            IF v.cls = "fin" /\ (\E k \in 0..12 : v.d = 2 ^ k) THEN v ELSE Unk

\* the magnitude of the exponent the digit string ds writes; one of more
\* than four digits is beyond every threshold
ExponentMagnitude(ds) == IF Len(ds) > 4 THEN 10000 ELSE DigitsValue(ds)

\* the exponent written by t, the text after the exponent marker: an
\* optional sign and digits; 0 when no digit follows, the marker then being
\* no part of the number
ExponentAfterMarker(t) ==
    LET signed == t # <<>> /\ Head(t) \in {"+", "-"}
        ds == IF signed THEN Tail(t) ELSE t
        mag == ExponentMagnitude(StripLeadingZeros(SubSeq(ds, 1, DigitRun(ds))))
    IN IF signed /\ Head(t) = "-" THEN 0 - mag ELSE mag

\* the exponent written by rest, the text after the mantissa
ExponentOf(rest) ==
    IF rest # <<>> /\ Head(rest) \in {"e", "E"} THEN ExponentAfterMarker(Tail(rest)) ELSE 0

\* the conversion of 0.sig * 10^order, sig without leading zeros
ConvertDecimal(sig, order) ==
    IF sig = <<>> THEN [ec |-> "ok", value |-> D(0)]
    ELSE IF Overflows(sig, order) \/ Underflows(sig, order)
    THEN [ec |-> "result_out_of_range", value |-> D(0)]
    ELSE [ec |-> "ok", value |-> DecimalValue(sig, order)]

\* the conversion of the mantissa digits (intLen of them before the point)
\* with the exponent exp
ConvertDigits(digits, intLen, exp) ==
    IF digits = <<>> THEN [ec |-> "invalid_argument", value |-> D(0)]
    ELSE ConvertDecimal(StripLeadingZeros(digits),
                        exp + intLen - (Len(digits) - Len(StripLeadingZeros(digits))))

\* the conversion of a text with intLen digits, then fracLen digits after a
\* decimal point if pointLen is 1
ConvertMantissa(text, intLen, pointLen, fracLen) ==
    ConvertDigits(SubSeq(text, 1, intLen) \o SubSeq(text, intLen + 2, intLen + 1 + fracLen),
                  intLen,
                  ExponentOf(SubSeq(text, intLen + pointLen + fracLen + 1, Len(text))))

\* std::from_chars(first, last, value) for double, on a text that does not
\* start with a sign: the longest prefix digits [. digits] [e [sign] digits]
\* is converted; ec is invalid_argument when there is none and
\* result_out_of_range when the decimal rounds to infinity or to zero, and
\* value is written only when ec is "ok"
from_chars(text) ==
    LET intLen == DigitRun(text) IN
    IF intLen < Len(text) /\ text[intLen + 1] = "."
    THEN ConvertMantissa(text, intLen, 1, DigitRun(SubSeq(text, intLen + 2, Len(text))))
    ELSE ConvertMantissa(text, intLen, 0, 0)

\* the loop of lex_number
RECURSIVE lex_number_scan(_, _, _)
lex_number_scan(lx, has_decimal, has_exponent) ==
    IF lx.pos_ >= Len(lx.source_) THEN lx
    ELSE LET c == CharAt(lx, lx.pos_) IN
         IF isdigit(c) THEN lex_number_scan(Bump(lx), has_decimal, has_exponent)
         ELSE IF c = "." /\ ~has_decimal THEN lex_number_scan(Bump(lx), TRUE, has_exponent)
         ELSE IF c \in {"e", "E"} /\ ~has_exponent
         THEN LET a == Bump(lx)
                  b == IF a.pos_ < Len(a.source_) /\ CharAt(a, a.pos_) \in {"+", "-"}
                       THEN Bump(a) ELSE a
              IN lex_number_scan(b, has_decimal, TRUE)
         ELSE lx

\* `value` is uninitialized when from_chars does not write it
lex_number(lx, junk) ==
    LET start == lx.pos_
        end == lex_number_scan(lx, FALSE, FALSE)
        num_text == substr(lx.source_, start, end.pos_ - start)
        result == from_chars(num_text)
        value == IF result.ec = "ok" THEN result.value ELSE junk.value
    IN IF result.ec = "invalid_argument"
       THEN Lexer_throw_error(end, "Invalid number format", "", FALSE)
       ELSE Returned(end, LexToken("NUMBER", num_text, value, end.line_,
                                   ToSizeT(end.col_ - Len(num_text))), FALSE)

\* the loop of lex_identifier
RECURSIVE lex_identifier_scan(_)
\* the loop of lex_identifier taking no character
lex_identifier_scan_stuck(lx) == lx

lex_identifier_scan(lx) ==
    IF lx.pos_ < Len(lx.source_) /\ is_identifier_continue(CharAt(lx, lx.pos_))
    THEN lex_identifier_scan(Bump(lx))
    ELSE lx

lex_identifier(lx) ==
    LET start == lx.pos_
        end == lex_identifier_scan(lx)
        text == substr(lx.source_, start, end.pos_ - start)
        type == IF text \in DOMAIN keywords THEN keywords[text] ELSE "IDENTIFIER"
    IN Returned(end, LexToken(type, text, D(0), end.line_, ToSizeT(end.col_ - Len(text))),
                FALSE)

\* the loop of lex_string over st = [lexer, oob]; after a backslash the
\* character at pos_ is read without a bounds test
RECURSIVE lex_string_scan(_, _)
\* the loop of lex_string without the escape: it stops at the first quote
lex_string_scan_no_escape(st, junk) ==
    LET lx == st.lexer IN
    IF lx.pos_ < Len(lx.source_) /\ CharAt(lx, lx.pos_) # "\""
    THEN lex_string_scan([lexer |-> Bump(lx), oob |-> st.oob], junk)
    ELSE st

lex_string_scan(st, junk) ==
    LET lx == st.lexer IN
    IF lx.pos_ < Len(lx.source_) /\ CharAt(lx, lx.pos_) # "\""
    THEN LET a == IF CharAt(lx, lx.pos_) = "\\" THEN Bump(lx) ELSE lx
             outside == a.pos_ >= Len(a.source_)
             c == IF outside THEN junk.char ELSE CharAt(a, a.pos_)
             b == IF c = "\n" THEN [a EXCEPT !.line_ = @ + 1, !.col_ = 1] ELSE a
         IN lex_string_scan([lexer |-> Bump(b), oob |-> st.oob \/ outside], junk)
    ELSE st

lex_string(lx, junk) ==
    LET opened == Bump(lx)
        start == opened.pos_
        st == lex_string_scan([lexer |-> opened, oob |-> FALSE], junk)
        end == st.lexer
    IN IF end.pos_ >= Len(end.source_)
       THEN Lexer_throw_error(end, "Unterminated string literal", "", st.oob)
       ELSE LET text == substr(end.source_, start, end.pos_ - start)
                closed == Bump(end)
            IN Returned(closed, LexToken("STRING", text, D(0), closed.line_,
                                         ToSizeT(closed.col_ - Len(text) - 2)), st.oob)

\* Lexer::next
RECURSIVE next(_, _)
next(lexer0, junk) ==
    LET lx == skip_whitespace(lexer0) IN
    IF lx.pos_ >= Len(lx.source_) THEN Returned(lx, make_token(lx, "EOF"), FALSE)
    ELSE LET c == CharAt(lx, lx.pos_) IN
         IF isdigit(c) \/ (c = "." /\ lx.pos_ + 1 < Len(lx.source_)
                           /\ isdigit(CharAt(lx, lx.pos_ + 1)))
         THEN lex_number(lx, junk)
         ELSE IF is_identifier_start(c) THEN lex_identifier(lx)
         ELSE IF c = "\"" THEN lex_string(lx, junk)
         ELSE IF lx.pos_ + 1 < Len(lx.source_)
                 /\ substr(lx.source_, lx.pos_, 2) \in DOMAIN multi_char_ops
         THEN LET a == [lx EXCEPT !.pos_ = @ + 2, !.col_ = @ + 2] IN
              Returned(a, make_token(a, multi_char_ops[substr(lx.source_, lx.pos_, 2)]), FALSE)
         ELSE IF c \in DOMAIN single_char_tokens
         THEN LET a == Bump(lx) IN Returned(a, make_token(a, single_char_tokens[c]), FALSE)
         ELSE IF c = "#" THEN next(skip_comment(lx), junk)
         ELSE Lexer_throw_error(lx, "Unexpected character: ", c, FALSE)

(***************************************************************************)
(* Parser.  The token stream is the sequence the lexer yields, followed by *)
(* end-of-input tokens for ever; current_ is the token at the cursor i.    *)
(* A parser state is [thrown, msg, node, i, pool]: the exception in flight *)
(* ("none" if none), the node last returned, the cursor and the arena.     *)
(***************************************************************************)
PREC_NONE == 0
PREC_ASSIGNMENT == 1
PREC_TERNARY == 2
PREC_OR == 3
PREC_AND == 4
PREC_EQUALITY == 5
PREC_COMPARISON == 6
PREC_TERM == 7
PREC_FACTOR == 8
PREC_UNARY == 9
PREC_POWER == 10
PREC_CALL == 11
PREC_PRIMARY == 12

Token(type, text, value) == [type |-> type, text |-> text, value |-> value]

EOFToken == Token("EOF", "", D(0))

ParseRule(prefix, infix, precedence) ==
    [prefix |-> prefix, infix |-> infix, precedence |-> precedence]

\* setup_rules and get_rule: the rule of a token type, or {nullptr, nullptr, PREC_NONE}
get_rule(type) ==
    CASE type = "NUMBER" -> ParseRule("number", "nullptr", PREC_NONE)
      [] type = "IDENTIFIER" -> ParseRule("variable", "call", PREC_CALL)
      [] type = "STRING" -> ParseRule("string", "nullptr", PREC_NONE)
      [] type = "LPAREN" -> ParseRule("grouping", "call", PREC_CALL)
      [] type = "LBRACKET" -> ParseRule("matrix", "nullptr", PREC_NONE)
      [] type = "MINUS" -> ParseRule("unary", "binary", PREC_TERM)
      [] type = "PLUS" -> ParseRule("nullptr", "binary", PREC_TERM)
      [] type = "STAR" -> ParseRule("nullptr", "binary", PREC_FACTOR)
      [] type = "SLASH" -> ParseRule("nullptr", "binary", PREC_FACTOR)
      [] type = "CARET" -> ParseRule("nullptr", "binary", PREC_POWER)
      [] type = "EQUAL" -> ParseRule("nullptr", "assignment", PREC_ASSIGNMENT)
      [] type = "EQEQ" -> ParseRule("nullptr", "binary", PREC_EQUALITY)
      [] type = "NEQ" -> ParseRule("nullptr", "binary", PREC_EQUALITY)
      [] type = "LESS" -> ParseRule("nullptr", "binary", PREC_COMPARISON)
      [] type = "LEQ" -> ParseRule("nullptr", "binary", PREC_COMPARISON)
      [] type = "GREATER" -> ParseRule("nullptr", "binary", PREC_COMPARISON)
      [] type = "GEQ" -> ParseRule("nullptr", "binary", PREC_COMPARISON)
      [] type = "BANG" -> ParseRule("unary", "nullptr", PREC_NONE)
      [] type = "TRUE" -> ParseRule("boolean", "nullptr", PREC_NONE)
      [] type = "FALSE" -> ParseRule("boolean", "nullptr", PREC_NONE)
      [] type = "PI" -> ParseRule("constant", "nullptr", PREC_NONE)
      [] type = "E" -> ParseRule("constant", "nullptr", PREC_NONE)
      [] type = "INF" -> ParseRule("constant", "nullptr", PREC_NONE)
      [] type = "NAN" -> ParseRule("constant", "nullptr", PREC_NONE)
      [] OTHER -> ParseRule("nullptr", "nullptr", PREC_NONE)

current_(toks, st) == IF st.i <= Len(toks) THEN toks[st.i] ELSE EOFToken

advance(st) == [st EXCEPT !.i = @ + 1]

throw_error(st, message) == [st EXCEPT !.thrown = "ParseError", !.msg = message]

\* the state after a factory call made the node that the handler returns
Returning(st, c) == [st EXCEPT !.pool = c.pool, !.node = c.ptr]

consume(toks, st, type, message) ==
    IF current_(toks, st).type = type THEN advance(st) ELSE throw_error(st, message)

\* match: whether the current token has this type; MatchAdvance is the state after
match(toks, st, type) == current_(toks, st).type = type
MatchAdvance(toks, st, type) == IF match(toks, st, type) THEN advance(st) ELSE st

number(toks, st) ==
    Returning(advance(st), create(st.pool, NumberNode(current_(toks, st).value)))

string(toks, st) ==
    Returning(advance(st), create(st.pool, StringNode(current_(toks, st).text)))

boolean(toks, st) ==
    Returning(advance(st), create(st.pool, BooleanNode(current_(toks, st).type = "TRUE")))

\* pi and e are finite doubles the model does not compute
constant(toks, st) ==
    LET t == current_(toks, st).type IN
    IF t \notin {"PI", "E", "INF", "NAN"} THEN throw_error(st, "Unknown constant")
    ELSE Returning(advance(st),
                   create(st.pool, NumberNode(CASE t = "INF" -> Inf(FALSE)
                                                [] t = "NAN" -> NaN
                                                [] OTHER -> Unk)))

variable(toks, st) ==
    Returning(advance(st), create(st.pool, VariableNode(current_(toks, st).text)))

\* mutants of binary_right_precedence: one level higher (left-associative), and
\* the lowest level (the whole rest of the expression becomes the right operand)
binary_right_precedence_next(rule) == rule.precedence + 1
binary_right_precedence_lowest(rule) == PREC_ASSIGNMENT

\* the precedence at which `binary` parses its right operand
binary_right_precedence(rule) == rule.precedence

\* the BinaryOp that `binary` builds for an operator token, "" for none
binary_op_of(type) ==
    CASE type = "PLUS" -> "ADD"
      [] type = "MINUS" -> "SUB"
      [] type = "STAR" -> "MUL"
      [] type = "SLASH" -> "DIV"
      [] type = "CARET" -> "POW"
      [] type = "EQEQ" -> "EQ"
      [] type = "NEQ" -> "NEQ"
      [] type = "LESS" -> "LT"
      [] type = "LEQ" -> "LEQ"
      [] type = "GREATER" -> "GT"
      [] type = "GEQ" -> "GEQ"
      [] OTHER -> ""

RECURSIVE parse_expression(_, _, _)
RECURSIVE parse_expression_loop(_, _, _)
RECURSIVE parse_prefix(_, _)
RECURSIVE parse_infix(_, _)
RECURSIVE grouping(_, _)
RECURSIVE matrix(_, _)
RECURSIVE matrix_rows(_, _, _)
RECURSIVE matrix_row(_, _, _)
RECURSIVE unary(_, _)
RECURSIVE binary(_, _)
RECURSIVE assignment(_, _)
RECURSIVE call(_, _)
RECURSIVE call_args(_, _, _)

\* while (precedence <= get_rule(current_.type).precedence) expr = parse_infix(expr);
parse_expression_loop(toks, st, precedence) ==
    IF st.thrown # "none" THEN st
    ELSE IF precedence <= get_rule(current_(toks, st).type).precedence
         THEN parse_expression_loop(toks, parse_infix(toks, st), precedence)
         ELSE st

parse_expression(toks, st, precedence) ==
    parse_expression_loop(toks, parse_prefix(toks, st), precedence)

parse_prefix(toks, st) ==
    LET rule == get_rule(current_(toks, st).type) IN
    CASE rule.prefix = "nullptr" -> throw_error(st, "Expected expression")
      [] rule.prefix = "number" -> number(toks, st)
      [] rule.prefix = "variable" -> variable(toks, st)
      [] rule.prefix = "string" -> string(toks, st)
      [] rule.prefix = "grouping" -> grouping(toks, st)
      [] rule.prefix = "matrix" -> matrix(toks, st)
      [] rule.prefix = "unary" -> unary(toks, st)
      [] rule.prefix = "boolean" -> boolean(toks, st)
      [] rule.prefix = "constant" -> constant(toks, st)

\* left is st.node; an empty std::function throws std::bad_function_call
parse_infix(toks, st) ==
    LET rule == get_rule(current_(toks, st).type) IN
    CASE rule.infix = "nullptr" -> [st EXCEPT !.thrown = "bad_function_call"]
      [] rule.infix = "binary" -> binary(toks, st)
      [] rule.infix = "assignment" -> assignment(toks, st)
      [] rule.infix = "call" -> call(toks, st)

grouping(toks, st) ==
    LET e == parse_expression(toks, advance(st), PREC_ASSIGNMENT) IN
    IF e.thrown # "none" THEN e
    ELSE consume(toks, e, "RPAREN", "Expect ')' after expression")

\* do { row.push_back(parse_expression()); } while (match(COMMA));
matrix_row(toks, st, row) ==
    LET e == parse_expression(toks, st, PREC_ASSIGNMENT) IN
    IF e.thrown # "none" THEN [st |-> e, row |-> row]
    ELSE IF match(toks, e, "COMMA")
         THEN matrix_row(toks, advance(e), Append(row, e.node))
         ELSE [st |-> e, row |-> Append(row, e.node)]

\* do { one row; rows.push_back(row); } while (match(COMMA));
matrix_rows(toks, st, rows) ==
    LET r == IF match(toks, st, "LBRACKET")
             THEN IF match(toks, advance(st), "RBRACKET")
                  THEN [st |-> advance(advance(st)), row |-> <<>>]
                  ELSE LET m == matrix_row(toks, advance(st), <<>>) IN
                       IF m.st.thrown # "none" THEN m
                       ELSE [st |-> consume(toks, m.st, "RBRACKET",
                                            "Expect ']' after row elements"),
                             row |-> m.row]
             ELSE LET e == parse_expression(toks, st, PREC_ASSIGNMENT) IN
                  [st |-> e, row |-> <<e.node>>]
    IN IF r.st.thrown # "none" THEN [st |-> r.st, rows |-> rows]
       ELSE IF match(toks, r.st, "COMMA")
            THEN matrix_rows(toks, advance(r.st), Append(rows, r.row))
            ELSE [st |-> r.st, rows |-> Append(rows, r.row)]

matrix(toks, st) ==
    LET s1 == advance(st) IN
    IF match(toks, s1, "RBRACKET")
    THEN Returning(advance(s1), create(s1.pool, MatrixNode(<<>>)))
    ELSE LET m == matrix_rows(toks, s1, <<>>) IN
         IF m.st.thrown # "none" THEN m.st
         ELSE LET c == consume(toks, m.st, "RBRACKET", "Expect ']' after matrix rows") IN
              IF c.thrown # "none" THEN c
              ELSE Returning(c, create(c.pool, MatrixNode(m.rows)))

unary(toks, st) ==
    LET op == current_(toks, st)
        right == parse_expression(toks, advance(st), PREC_UNARY)
    IN IF right.thrown # "none" THEN right
       ELSE CASE op.type = "MINUS" ->
                   Returning(right, create(right.pool, UnaryOpNode("NEGATE", right.node)))
              [] op.type = "BANG" ->
                   Returning(right, create(right.pool, UnaryOpNode("NOT", right.node)))
              [] OTHER -> throw_error(right, "Invalid unary operator")

binary(toks, st) ==
    LET op == current_(toks, st)
        left == st.node
        rule == get_rule(op.type)
        right == parse_expression(toks, advance(st), binary_right_precedence(rule))
    IN IF right.thrown # "none" THEN right
       ELSE IF binary_op_of(op.type) = "" THEN throw_error(right, "Invalid binary operator")
       ELSE Returning(right, create(right.pool,
                                    BinaryOpNode(binary_op_of(op.type), left, right.node)))

assignment(toks, st) ==
    LET left == st.node IN
    IF st.pool[left].type # "VARIABLE" THEN throw_error(st, "Invalid assignment target")
    ELSE LET value == parse_expression(toks, advance(st), PREC_ASSIGNMENT) IN
         IF value.thrown # "none" THEN value
         ELSE Returning(value, create(value.pool,
                                      AssignmentNode(st.pool[left].name, value.node)))

\* do { args.push_back(parse_expression()); } while (match(COMMA));
call_args(toks, st, args) ==
    LET e == parse_expression(toks, st, PREC_ASSIGNMENT) IN
    IF e.thrown # "none" THEN [st |-> e, args |-> args]
    ELSE IF match(toks, e, "COMMA")
         THEN call_args(toks, advance(e), Append(args, e.node))
         ELSE [st |-> e, args |-> Append(args, e.node)]

\* call does not advance past the token that invoked it
call(toks, st) ==
    LET left == st.node IN
    IF st.pool[left].type # "VARIABLE"
    THEN throw_error(st, "Can only call functions and methods")
    ELSE IF match(toks, st, "RPAREN")
         THEN Returning(advance(st), create(st.pool, FunctionNode(st.pool[left].name, <<>>)))
    ELSE LET a == call_args(toks, st, <<>>) IN
         IF a.st.thrown # "none" THEN a.st
         ELSE LET c == consume(toks, a.st, "RPAREN", "Expect ')' after arguments") IN
              IF c.thrown # "none" THEN c
              ELSE Returning(c, create(c.pool, FunctionNode(st.pool[left].name, a.args)))

\* parse(lexer): Parser parser(lexer); return parser.parse();
parse(toks, p) ==
    parse_expression(toks, [thrown |-> "none", msg |-> "", node |-> nullptr,
                            i |-> 1, pool |-> p], PREC_ASSIGNMENT)

(***************************************************************************)
(* Evaluator.  An outcome is [thrown, msg, name, detail, val]: thrown is   *)
(* "none" (val is the double returned), "EvaluationError", or "undefined"  *)
(* (the call has undefined behaviour: an element of an empty vector read). *)
(***************************************************************************)
Value(v) == [thrown |-> "none", msg |-> "", name |-> "", detail |-> <<>>, val |-> v]

EvaluationError(msg, name) ==
    [thrown |-> "EvaluationError", msg |-> msg, name |-> name, detail |-> <<>>, val |-> NaN]

Undefined ==
    [thrown |-> "undefined", msg |-> "", name |-> "", detail |-> <<>>, val |-> NaN]

\* the lambdas stored by EvalContext() and those passed to register_function
Lambda(body) == [kind |-> "lambda", body |-> body]

\* EvalContext::EvalContext
EvalContext_functions ==
    [f \in {"sin", "cos", "tan", "exp", "log", "sqrt", "pow"} |-> Lambda(f)]

\* validate_args that accepts every argument count
validate_args_unchecked(name, expected, actual) == Value(D(0))

validate_args(name, expected, actual) ==
    IF expected # actual
    THEN [EvaluationError("Function expects arguments", name)
            EXCEPT !.detail = <<expected, actual>>]
    ELSE Value(D(0))

\* eval_binary_op with the zero test of MOD left out
eval_binary_op_unguarded_mod(op, left, right) ==
    CASE op = "ADD" -> Value(DAdd(left, right))
      [] op = "SUB" -> Value(DSub(left, right))
      [] op = "MUL" -> Value(DMul(left, right))
      [] op = "DIV" ->
           IF IsUnk(right) THEN Value(Unk)
           ELSE IF DEq(right, D(0)) THEN EvaluationError("Division by zero", "")
           ELSE Value(DDiv(left, right))
      [] op = "POW" -> Value(DPow(left, right))
      [] op = "MOD" -> Value(DFmod(left, right))
      [] OTHER -> EvaluationError("Unknown binary operator", "")

eval_binary_op(op, left, right) ==
    CASE op = "ADD" -> Value(DAdd(left, right))
      [] op = "SUB" -> Value(DSub(left, right))
      [] op = "MUL" -> Value(DMul(left, right))
      [] op = "DIV" ->
           IF IsUnk(right) THEN Value(Unk)
           ELSE IF DEq(right, D(0)) THEN EvaluationError("Division by zero", "")
           ELSE Value(DDiv(left, right))
      [] op = "POW" -> Value(DPow(left, right))
      [] op = "MOD" ->
           IF IsUnk(right) THEN Value(Unk)
           ELSE IF DEq(right, D(0)) THEN EvaluationError("Modulo by zero", "")
           ELSE Value(DFmod(left, right))
      [] OTHER -> EvaluationError("Unknown binary operator", "")

eval_unary_op(op, operand) ==
    CASE op = "NEGATE" -> Value(DNeg(operand))
      [] op = "SIN" -> Value(DSin(operand))
      [] op = "COS" -> Value(DCos(operand))
      [] op = "TAN" -> Value(DTan(operand))
      [] op = "EXP" -> Value(DExp(operand))
      [] op = "LOG" ->
           IF IsUnk(operand) THEN Value(Unk)
           ELSE IF DLeZero(operand)
                THEN EvaluationError("Logarithm of non-positive number", "")
           ELSE Value(DLog(operand))
      [] op = "SQRT" ->
           IF IsUnk(operand) THEN Value(Unk)
           ELSE IF DLtZero(operand)
                THEN EvaluationError("Square root of negative number", "")
           ELSE Value(DSqrt(operand))
      [] OTHER -> EvaluationError("Unknown unary operator", "")

\* std::min_element / std::max_element / std::accumulate over a non-empty vector
RECURSIVE min_element(_, _)
min_element(best, xs) ==
    IF xs = <<>> THEN best
    ELSE min_element(IF DLess(Head(xs), best) THEN Head(xs) ELSE best, Tail(xs))

RECURSIVE max_element(_, _)
max_element(best, xs) ==
    IF xs = <<>> THEN best
    ELSE max_element(IF DLess(best, Head(xs)) THEN Head(xs) ELSE best, Tail(xs))

RECURSIVE accumulate(_, _)
accumulate(acc, xs) == IF xs = <<>> THEN acc ELSE accumulate(DAdd(acc, Head(xs)), Tail(xs))

HasUnk(xs) == \E i \in 1..Len(xs) : IsUnk(xs[i])

\* the body of a lambda applied to the argument vector
lambda_body(body, args) ==
    IF body # "pow" /\ body # "sum" /\ body # "avg" /\ args = <<>> THEN Undefined
    ELSE IF body = "pow" /\ Len(args) < 2 THEN Undefined
    ELSE IF HasUnk(args) THEN Value(Unk)
    ELSE CASE body = "sin" -> Value(DSin(args[1]))
           [] body = "cos" -> Value(DCos(args[1]))
           [] body = "tan" -> Value(DTan(args[1]))
           [] body = "exp" -> Value(DExp(args[1]))
           [] body = "log" -> Value(DLog(args[1]))
           [] body = "sqrt" -> Value(DSqrt(args[1]))
           [] body = "pow" -> Value(DPow(args[1], args[2]))
           [] body = "abs" -> Value(DAbs(args[1]))
           [] body = "min" -> Value(min_element(args[1], Tail(args)))
           [] body = "max" -> Value(max_element(args[1], Tail(args)))
           [] body = "sum" -> Value(accumulate(D(0), args))
           [] body = "avg" -> Value(DDiv(accumulate(D(0), args), D(Len(args))))
           [] body = "square" -> Value(DMul(args[1], args[1]))

\* the wrapper register_function stores: validate_args, then func(args)
registered_call(name, func, arity, args) ==
    LET v == validate_args(name, arity, W(Len(args))) IN
    IF v.thrown # "none" THEN v ELSE lambda_body(func, args)

\* it->second(args)
invoke(impl, args) ==
    IF impl.kind = "registered"
    THEN registered_call(impl.name, impl.func, impl.arity, args)
    ELSE lambda_body(impl.body, args)

RECURSIVE evaluate(_, _, _, _)
RECURSIVE evaluate_args(_, _, _, _, _)

\* the argument loop run from the last argument to the first
evaluate_args_from_right(p, xs, vs, fs, args) ==
    IF xs = <<>> THEN [thrown |-> "none", args |-> args]
    ELSE LET a == evaluate(p, xs[Len(xs)], vs, fs) IN
         IF a.thrown # "none" THEN [thrown |-> a.thrown, args |-> args, outcome |-> a]
         ELSE evaluate_args(p, SubSeq(xs, 1, Len(xs) - 1), vs, fs, <<a.val>> \o args)

\* for (auto* arg : fn->args) args.push_back(evaluate(arg, ctx));
evaluate_args(p, xs, vs, fs, args) ==
    IF xs = <<>> THEN [thrown |-> "none", args |-> args]
    ELSE LET a == evaluate(p, Head(xs), vs, fs) IN
         IF a.thrown # "none" THEN [thrown |-> a.thrown, args |-> args, outcome |-> a]
         ELSE evaluate_args(p, Tail(xs), vs, fs, Append(args, a.val))

\* evaluate(node, ctx): vs is ctx.variables, fs is ctx.functions
evaluate(p, node, vs, fs) ==
    IF node = nullptr THEN EvaluationError("Null node in evaluation", "")
    ELSE LET n == p[node] IN
    CASE n.type = "NUMBER" -> Value(n.value)
      [] n.type = "VARIABLE" ->
           IF n.name \notin DOMAIN vs THEN EvaluationError("Undefined variable: ", n.name)
           ELSE Value(vs[n.name])
      [] n.type = "BINARY_OP" ->
           LET left == evaluate(p, n.left, vs, fs) IN
           IF left.thrown # "none" THEN left
           ELSE LET right == evaluate(p, n.right, vs, fs) IN
                IF right.thrown # "none" THEN right
                ELSE eval_binary_op(n.op, left.val, right.val)
      [] n.type = "UNARY_OP" ->
           LET operand == evaluate(p, n.operand, vs, fs) IN
           IF operand.thrown # "none" THEN operand
           ELSE eval_unary_op(n.op, operand.val)
      [] n.type = "FUNCTION" ->
           LET a == evaluate_args(p, n.args, vs, fs, <<>>) IN
           IF a.thrown # "none" THEN a.outcome
           ELSE IF n.name \in DOMAIN fs THEN invoke(fs[n.name], a.args)
           ELSE EvaluationError("Unknown function: ", n.name)
      [] n.type = "MATRIX" ->
           EvaluationError("Matrix operations not yet implemented", "")
      [] n.type = "TENSOR" ->
           EvaluationError("Tensor operations not yet implemented", "")
      [] OTHER -> EvaluationError("Unknown node type in evaluation", "")

\* set_variable that keeps an existing binding (insert rather than assign)
set_variable_insert(vs, name, value) ==
    [k \in DOMAIN vs \cup {name} |-> IF k \in DOMAIN vs THEN vs[k] ELSE value]

\* global_context.variables[name] = value
set_variable(vs, name, value) ==
    [k \in DOMAIN vs \cup {name} |-> IF k = name THEN value ELSE vs[k]]

get_variable(vs, name) ==
    IF name \notin DOMAIN vs THEN EvaluationError("Undefined variable: ", name)
    ELSE Value(vs[name])

\* register_function that replaces an earlier registration
register_function_overwrite(fs, name, func, arity) ==
    [outcome |-> Value(D(0)),
     functions |->
         [k \in DOMAIN fs \cup {name} |->
             IF k = name
             THEN [kind |-> "registered", name |-> name, func |-> func, arity |-> arity]
             ELSE fs[k]]]

\* register_function: [thrown, functions]; arity has already become a size_t
register_function(fs, name, func, arity) ==
    IF name \in DOMAIN fs
    THEN [outcome |-> EvaluationError("Function already registered: ", name),
          functions |-> fs]
    ELSE [outcome |-> Value(D(0)),
          functions |->
              [k \in DOMAIN fs \cup {name} |->
                  IF k = name
                  THEN [kind |-> "registered", name |-> name, func |-> func,
                        arity |-> arity]
                  ELSE fs[k]]]

\* the register_function calls of builtin::initialize, in order, with the
\* arity each passes (converted to size_t at the call)
initialize_registrations ==
    <<<<"abs", 1>>, <<"min", -1>>, <<"max", -1>>, <<"sum", -1>>, <<"avg", -1>>>>

RECURSIVE initialize_register(_, _)
initialize_register(fs, regs) ==
    IF regs = <<>> THEN [outcome |-> Value(D(0)), functions |-> fs]
    ELSE LET r == register_function(fs, Head(regs)[1], Head(regs)[1],
                                    ToSizeT(Head(regs)[2]))
         IN IF r.outcome.thrown # "none" THEN r
            ELSE initialize_register(r.functions, Tail(regs))

\* builtin::initialize: [outcome, functions, variables]; pi and e are finite
\* doubles the model does not compute
initialize(vs, fs) ==
    LET r == initialize_register(fs, initialize_registrations) IN
    IF r.outcome.thrown # "none"
    THEN [outcome |-> r.outcome, functions |-> r.functions, variables |-> vs]
    ELSE [outcome |-> r.outcome, functions |-> r.functions,
          variables |-> set_variable(set_variable(set_variable(vs, "pi", Unk),
                                                  "e", Unk), "inf", Inf(FALSE))]

(***************************************************************************)
(* The calls of the API as actions.  `last` records the call just made and *)
(* its outcome; roots are the Node* values the caller holds.               *)
(***************************************************************************)
NoCall == [op |-> "none"]

\* an outcome the model computes: not a value that is "unk"
Computed(o) == ~(o.thrown = "none" /\ IsUnk(o.val))

\* parse(lexer) over the token stream `source`
Parse ==
    /\ last = NoCall
    /\ roots = <<>>
    /\ LET r == parse(source, pool) IN
       /\ pool' = r.pool
       /\ roots' = IF r.thrown = "none" THEN <<r.node>> ELSE <<>>
       /\ last' = [op |-> "parse", thrown |-> r.thrown, msg |-> r.msg,
                   node |-> IF r.thrown = "none" THEN r.node ELSE nullptr, i |-> r.i]
    /\ UNCHANGED <<lexer, source, variables, functions>>

\* an evaluate that carries out an Assignment: it binds the name
Evaluate_assigning ==
    \E node \in {roots[i] : i \in 1..Len(roots)} \cup {nullptr} :
       LET o == evaluate(pool, node, variables, functions) IN
       /\ Computed(o)
       /\ last' = [op |-> "evaluate", node |-> node, outcome |-> o]
       /\ variables' = IF node # nullptr /\ pool[node].type = "ASSIGNMENT"
                       THEN [k \in DOMAIN variables \cup {pool[node].name} |->
                               IF k = pool[node].name THEN D(1) ELSE variables[k]]
                       ELSE variables
       /\ UNCHANGED <<lexer, pool, source, functions, roots>>

\* evaluate(node) == evaluate(node, global_context)
Evaluate ==
    \E node \in {roots[i] : i \in 1..Len(roots)} \cup {nullptr} :
       LET o == evaluate(pool, node, variables, functions) IN
       /\ Computed(o)
       /\ last' = [op |-> "evaluate", node |-> node, outcome |-> o]
       /\ UNCHANGED <<lexer, pool, source, variables, functions, roots>>

(***************************************************************************)
(* SpecParse: a token stream is parsed, then the tree evaluated in the     *)
(* context as constructed.                                                 *)
(***************************************************************************)
Num(i) == Token("NUMBER", "", D(i))
Ident(name) == Token("IDENTIFIER", name, D(0))
Punct(type) == Token(type, "", D(0))

\* the operator tokens whose infix handler is `binary`
BinaryTokens ==
    {"PLUS", "MINUS", "STAR", "SLASH", "CARET", "EQEQ", "NEQ", "LESS", "LEQ",
     "GREATER", "GEQ"}

\* a p b q c
OperatorSource(a, p, b, q, c) == <<a, Punct(p), b, Punct(q), c>>

OperandTriples ==
    {<<Num(1), Num(2), Num(3)>>, <<Num(2), Num(3), Num(4)>>,
     <<Ident("x"), Num(2), Ident("y")>>}

\* e1 , e2 , ... , en
RECURSIVE CommaSeparated(_)
CommaSeparated(es) ==
    IF es = <<>> THEN <<>>
    ELSE IF Len(es) = 1 THEN es[1]
    ELSE es[1] \o <<Punct("COMMA")>> \o CommaSeparated(Tail(es))

\* f ( e1 , ... , en )
CallSource(f, es) ==
    <<Ident(f), Punct("LPAREN")>> \o CommaSeparated(es) \o <<Punct("RPAREN")>>

\* argument expressions: 1, 7, 3, x, -5, 2+4
ArgExprs ==
    {<<Num(1)>>, <<Num(7)>>, <<Num(3)>>, <<Ident("x")>>, <<Punct("MINUS"), Num(5)>>,
     <<Num(2), Punct("PLUS"), Num(4)>>}

Callees == {"f", "abs", "max"}

SeqsUpTo(S, n) == UNION {[1..k -> S] : k \in 0..n}

CallSources == {CallSource(f, es) : f \in Callees, es \in SeqsUpTo(ArgExprs, MaxArgs)}

OperatorSources ==
    {OperatorSource(t[1], p, t[2], q, t[3]) :
        t \in OperandTriples, p \in BinaryTokens, q \in BinaryTokens}

\* every token stream of up to MaxTokens tokens over a small alphabet
Alphabet ==
    {Num(1), Ident("f"), Ident("x"), Punct("LPAREN"), Punct("RPAREN"), Punct("COMMA"),
     Punct("MINUS"), Punct("STAR"), Punct("EQUAL"), Punct("LBRACKET"), Punct("RBRACKET")}

ShortSources == SeqsUpTo(Alphabet, MaxTokens)

\* matrix elements: 1, 2, x
MatrixExprs == {<<Num(1)>>, <<Num(2)>>, <<Ident("x")>>}

\* [ e1 , ... , en ]
FlatMatrixSource(es) ==
    <<Punct("LBRACKET")>> \o CommaSeparated(es) \o <<Punct("RBRACKET")>>

RECURSIVE BracketedRows(_)
BracketedRows(rows) ==
    IF rows = <<>> THEN <<>> ELSE <<FlatMatrixSource(rows[1])>> \o BracketedRows(Tail(rows))

\* [ [ e11 , ... ] , [ e21 , ... ] , ... ]
NestedMatrixSource(rows) ==
    <<Punct("LBRACKET")>> \o CommaSeparated(BracketedRows(rows)) \o <<Punct("RBRACKET")>>

FlatMatrices == SeqsUpTo(MatrixExprs, MaxArgs)

NestedMatrices ==
    UNION {[1..k -> SeqsUpTo({<<Num(1)>>, <<Num(2)>>}, MaxRows)] : k \in 1..MaxRows}

MatrixSources ==
    {FlatMatrixSource(es) : es \in FlatMatrices}
    \cup {NestedMatrixSource(rows) : rows \in NestedMatrices}

Sources == CallSources \cup OperatorSources \cup ShortSources \cup MatrixSources

InitParse ==
    /\ source \in Sources
    /\ pool = <<>>
    /\ roots = <<>>
    /\ last = NoCall
    /\ variables = <<>>
    /\ functions = EvalContext_functions
    /\ lexer = Lexer(<<>>)

NextParse == Parse \/ Evaluate

SpecParse == InitParse /\ [][NextParse]_vars

(***************************************************************************)
(* SpecAst: the AST algorithms applied to trees in the arena.              *)
(***************************************************************************)
Held == {roots[i] : i \in 1..Len(roots)} \cup {nullptr}

Clone ==
    \E node \in Held :
       LET r == clone(pool, node) IN
       /\ Len(roots) < MaxRoots
       /\ Len(r.pool) <= MaxPool
       /\ pool' = r.pool
       /\ roots' = IF r.thrown \/ r.ptr = nullptr THEN roots ELSE Append(roots, r.ptr)
       /\ last' = [op |-> "clone", node |-> node, thrown |-> r.thrown, ret |-> r.ptr]
       /\ UNCHANGED <<lexer, source, variables, functions>>

Simplify ==
    \E node \in Held :
       LET r == simplify(pool, node) IN
       /\ Len(roots) < MaxRoots
       /\ Len(r.pool) <= MaxPool
       /\ pool' = r.pool
       /\ roots' = IF r.thrown # "none" \/ r.ptr = nullptr THEN roots
                   ELSE Append(roots, r.ptr)
       /\ last' = [op |-> "simplify", node |-> node, thrown |-> r.thrown, ret |-> r.ptr]
       /\ UNCHANGED <<lexer, source, variables, functions>>

Equals ==
    \E a \in Held, b \in Held :
       /\ last' = [op |-> "equals", a |-> a, b |-> b, ret |-> equals(pool, a, b)]
       /\ UNCHANGED <<lexer, pool, source, variables, functions, roots>>

Hash ==
    \E node \in Held :
       LET r == hash(pool, node) IN
       /\ last' = [op |-> "hash", node |-> node, thrown |-> r.thrown, h |-> r.h]
       /\ UNCHANGED <<lexer, pool, source, variables, functions, roots>>

Traverse ==
    \E node \in Held :
       /\ last' = [op |-> "traverse", node |-> node, visited |-> traverse(pool, node)]
       /\ UNCHANGED <<lexer, pool, source, variables, functions, roots>>

AllBinaryOps == {BinaryOp[i] : i \in 1..Len(BinaryOp)}
AllUnaryOps == {UnaryOp[i] : i \in 1..Len(UnaryOp)}

AstNums == {D(0), D(1), D(-1), NaN}
NumLeaves == {NumberNode(v) : v \in AstNums}
RightLeaves == {NumberNode(v) : v \in {D(0), D(1)}}

One == NumberNode(D(1))
X == VariableNode("x")

\* operand trees of the deeper numeric trees: 1, 1-1, inf*0, -1
Inner ==
    {One, BinaryOpNode("SUB", One, One),
     BinaryOpNode("MUL", NumberNode(Inf(FALSE)), NumberNode(D(0))),
     UnaryOpNode("NEGATE", One)}

\* trees whose leaves are all Number literals
NumericTrees ==
    NumLeaves
    \cup {BinaryOpNode(op, a, b) : op \in AllBinaryOps, a \in NumLeaves, b \in RightLeaves}
    \cup {UnaryOpNode(op, a) : op \in AllUnaryOps, a \in NumLeaves}
    \cup {BinaryOpNode(op, u, v) : op \in {"SUB", "DIV"}, u \in Inner, v \in Inner}
    \cup {UnaryOpNode(op, u) : op \in {"NEGATE", "SQRT", "LOG"}, u \in Inner}
    \cup {BinaryOpNode("MOD", NumberNode(D(7)), NumberNode(D(2))),
          BinaryOpNode("ADD", One, BinaryOpNode("MOD", NumberNode(D(7)), NumberNode(D(2))))}

Kids == {One, X, BooleanNode(TRUE)}
Kids2 == {One, X}
Rows == SeqsUpTo({One}, MaxKids)

\* trees of the other variants
StructuralTrees ==
    {BooleanNode(TRUE), BooleanNode(FALSE), StringNode("s"), X, VariableNode("y")}
    \cup {FunctionNode("f", args) : args \in SeqsUpTo(Kids, MaxKids)}
    \cup {FunctionNode("g", <<>>)}
    \cup {MatrixNode(rows) : rows \in SeqsUpTo(Rows, 2)}
    \cup {TensorNode(dims, values) :
            dims \in {<<2>>, <<1, 2>>}, values \in SeqsUpTo(Kids2, MaxKids)}
    \cup {AssignmentNode("x", v) : v \in Kids}
    \cup {BlockNode(ss) : ss \in SeqsUpTo(Kids2, MaxKids)}
    \cup {IfNode(X, t, e) : t \in Kids2, e \in Kids2 \cup {Absent}}
    \cup {WhileNode(X, b) : b \in Kids2}
    \cup {ForNode(X, X, One, b) : b \in Kids2}
    \cup {ReturnNode(v) : v \in Kids2 \cup {Absent}}

\* trees that nest the variants in one another
MixedTrees ==
    {BinaryOpNode("ADD", X, One),
     BinaryOpNode("MUL", BinaryOpNode("ADD", One, One), X),
     UnaryOpNode("NEGATE", FunctionNode("f", <<X, BinaryOpNode("SUB", One, X)>>)),
     FunctionNode("f", <<MatrixNode(<<<<One, X>>, <<X>>>>), UnaryOpNode("SIN", X)>>),
     MatrixNode(<<<<One>>, <<X, NumberNode(D(0))>>>>),
     MatrixNode(<<<<One, X>>, <<NumberNode(D(0))>>>>),
     MatrixNode(<<<<BinaryOpNode("ADD", One, X)>>, <<>>>>),
     TensorNode(<<2, 1>>, <<BinaryOpNode("ADD", One, X), NumberNode(NaN)>>),
     BlockNode(<<AssignmentNode("x", BinaryOpNode("ADD", One, One)), ReturnNode(X)>>),
     IfNode(BooleanNode(TRUE), BlockNode(<<AssignmentNode("x", One)>>), Absent),
     IfNode(BinaryOpNode("LT", X, One), ReturnNode(One), ReturnNode(Absent)),
     WhileNode(BinaryOpNode("LT", X, One),
               AssignmentNode("x", BinaryOpNode("ADD", X, One))),
     ForNode(AssignmentNode("x", One), BinaryOpNode("LT", X, One),
             AssignmentNode("x", BinaryOpNode("ADD", X, One)), BlockNode(<<>>)),
     BinaryOpNode("ADD", One, AssignmentNode("x", One)),
     FunctionNode("g", <<StringNode("s"), One>>)}

\* the tree with the sign of every zero Number flipped (0.0 becomes -0.0)
RECURSIVE ZeroFlipped(_)
RECURSIVE ZeroFlippedSeq(_)
ZeroFlipped(t) ==
    IF t.type = "NUMBER" THEN (IF IsZero(t.value) THEN NumberNode(DNeg(t.value)) ELSE t)
    ELSE WithChildren(t, ZeroFlippedSeq(ChildPtrs(t)))

ZeroFlippedSeq(ts) ==
    IF ts = <<>> THEN <<>> ELSE <<ZeroFlipped(Head(ts))>> \o ZeroFlippedSeq(Tail(ts))

\* no Number of the arena holds a value the model does not compute
InGrid(p) == \A i \in 1..Len(p) : p[i].type = "NUMBER" => ~IsUnk(p[i].value)

AstTrees ==
    {t \in NumericTrees \cup StructuralTrees \cup MixedTrees :
        LET b == Build(<<>>, t) IN InGrid(simplify(b.pool, b.ptr).pool)}

\* the arena holds one tree, or a tree and the same tree with its zeros' signs flipped
InitAst ==
    \E t \in AstTrees, twin \in BOOLEAN :
       LET b1 == Build(<<>>, t)
           b2 == Build(b1.pool, ZeroFlipped(t))
       IN /\ roots = IF twin THEN <<b1.ptr, b2.ptr>> ELSE <<b1.ptr>>
          /\ pool = IF twin THEN b2.pool ELSE b1.pool
    /\ source = <<>>
    /\ last = NoCall
    /\ variables = <<>>
    /\ functions = EvalContext_functions
    /\ lexer = Lexer(<<>>)

NextAst == Clone \/ Simplify \/ Equals \/ Hash \/ Traverse

SpecAst == InitAst /\ [][NextAst]_vars

(***************************************************************************)
(* Properties of the AST algorithms                                        *)
(***************************************************************************)
\* C3: clone(x) returns for every tree x, whatever variants it is built from,
\* and equals(clone(x), x) is true.
C3_CloneEquals ==
    last.op = "clone" =>
       /\ ~last.thrown
       /\ equals(pool, last.ret, last.node) = "true"

\* the nodes of the tree at ptr, a node before its children, children left to right
RECURSIVE PreOrder(_, _)
RECURSIVE PreOrderSeq(_, _)
PreOrder(p, ptr) ==
    IF ptr = nullptr THEN <<>> ELSE <<ptr>> \o PreOrderSeq(p, ChildPtrs(p[ptr]))

PreOrderSeq(p, ptrs) ==
    IF ptrs = <<>> THEN <<>> ELSE PreOrder(p, Head(ptrs)) \o PreOrderSeq(p, Tail(ptrs))

\* C4: traverse on a non-null root calls the visitor on every node of the tree
\* exactly once, in pre-order.
C4_TraversePreOrder ==
    last.op = "traverse" /\ last.node # nullptr =>
       last.visited = PreOrder(pool, last.node)

\* C5: when equals(a, b) returned true and hash returns on both a and b, the two
\* hashes are the same.
C5_EqualsImpliesHash ==
    last.op = "equals" /\ last.ret = "true" =>
       LET ha == hash(pool, last.a)
           hb == hash(pool, last.b)
       IN ~ha.thrown /\ ~hb.thrown => ha.h = hb.h

\* C5 witness: equals returned true on two different nodes whose trees differ
\* (a zero against a negative zero), and hash returns on both.
C5_Witness ==
    /\ last.op = "equals" /\ last.ret = "true"
    /\ last.a # last.b
    /\ TreeOf(pool, last.a) # TreeOf(pool, last.b)
    /\ ~hash(pool, last.a).thrown /\ ~hash(pool, last.b).thrown

\* every leaf of the tree at ptr is a Number literal
RECURSIVE NumberLeaves(_, _)
NumberLeaves(p, ptr) ==
    /\ ptr # nullptr
    /\ LET kids == ChildPtrs(p[ptr]) IN
       IF kids = <<>> THEN p[ptr].type = "NUMBER"
       ELSE \A i \in 1..Len(kids) : NumberLeaves(p, kids[i])

\* C6: for a tree t whose leaves are all Number literals, simplify(simplify(t))
\* equals simplify(t), also when a fold produced NaN or an infinity.
C6_SimplifyIdempotent ==
    last.op = "simplify" /\ last.thrown = "none" /\ NumberLeaves(pool, last.node) =>
       LET again == simplify(pool, last.ret) IN
       /\ again.thrown = "none"
       /\ equals(again.pool, again.ptr, last.ret) = "true"

(***************************************************************************)
(* Properties of the parser (SpecParse).                                   *)
(***************************************************************************)
\* the tree a single operand token parses to
Atom(tok) ==
    IF tok.type = "NUMBER" THEN NumberNode(tok.value) ELSE VariableNode(tok.text)

\* the tree an argument expression parses to on its own
ArgTree(e) == LET r == parse(e, <<>>) IN TreeOf(r.pool, r.node)

RECURSIVE ArgTrees(_)
ArgTrees(es) == IF es = <<>> THEN <<>> ELSE <<ArgTree(es[1])>> \o ArgTrees(Tail(es))

Parsed == last.op = "parse"
ParsedTree == TreeOf(pool, last.node)

Prec(type) == get_rule(type).precedence

\* C1: for every identifier f and every list of n >= 0 argument expressions,
\* parsing the source f(e1,...,en) followed by end of input succeeds and
\* yields Function(f, [e1,...,en]) with the arguments in source order.
C1_CallParses ==
    \A f \in Callees, es \in SeqsUpTo(ArgExprs, MaxArgs) :
        (Parsed /\ source = CallSource(f, es))
            => /\ last.thrown = "none"
               /\ ParsedTree = FunctionNode(f, ArgTrees(es))

\* C7: binary operators of equal table precedence group to the right:
\* a p b q c parses to BinaryOp(p, a, BinaryOp(q, b, c)).
C7_RightGrouping ==
    \A t \in OperandTriples, p \in BinaryTokens, q \in BinaryTokens :
        (Parsed /\ Prec(p) = Prec(q) /\ source = OperatorSource(t[1], p, t[2], q, t[3]))
            => /\ last.thrown = "none"
               /\ ParsedTree =
                    BinaryOpNode(binary_op_of(p), Atom(t[1]),
                                 BinaryOpNode(binary_op_of(q), Atom(t[2]), Atom(t[3])))

\* C7 witness: 1-2-3 has been parsed, as 1-(2-3)
C7_Witness ==
    /\ Parsed
    /\ source = OperatorSource(Num(1), "MINUS", Num(2), "MINUS", Num(3))
    /\ ParsedTree = BinaryOpNode("SUB", NumberNode(D(1)),
                                 BinaryOpNode("SUB", NumberNode(D(2)), NumberNode(D(3))))

TwoPlusThreeTimesFour == OperatorSource(Num(2), "PLUS", Num(3), "STAR", Num(4))

\* C8: when q has a strictly higher table precedence than p, a p b q c parses
\* to BinaryOp(p, a, BinaryOp(q, b, c)) and a q b p c parses to
\* BinaryOp(p, BinaryOp(q, a, b), c); parsing and evaluating 2+3*4 gives 14.
C8_HigherBindsTighter ==
    /\ \A t \in OperandTriples, p \in BinaryTokens, q \in BinaryTokens :
         (Parsed /\ Prec(q) > Prec(p)) =>
            /\ source = OperatorSource(t[1], p, t[2], q, t[3])
                 => /\ last.thrown = "none"
                    /\ ParsedTree =
                         BinaryOpNode(binary_op_of(p), Atom(t[1]),
                                      BinaryOpNode(binary_op_of(q), Atom(t[2]), Atom(t[3])))
            /\ source = OperatorSource(t[1], q, t[2], p, t[3])
                 => /\ last.thrown = "none"
                    /\ ParsedTree =
                         BinaryOpNode(binary_op_of(p),
                                      BinaryOpNode(binary_op_of(q), Atom(t[1]), Atom(t[2])),
                                      Atom(t[3]))
    /\ (source = TwoPlusThreeTimesFour /\ last.op = "evaluate" /\ last.node # nullptr)
         => last.outcome = Value(D(14))

\* C8 witness: 2+3*4 has been parsed and its tree evaluated, to 14
C8_Witness ==
    /\ source = TwoPlusThreeTimesFour
    /\ last.op = "evaluate"
    /\ last.node # nullptr
    /\ last.outcome = Value(D(14))

(***************************************************************************)
(* Spec: the evaluator's API called on the global context, with one tree   *)
(* in the arena.                                                           *)
(***************************************************************************)
\* the (name, value) pairs the caller sets
Bindings == {<<"x", D(0)>>, <<"x", D(2)>>, <<"y", D(2)>>}

SetVariable ==
    \E b \in Bindings :
       /\ variables' = set_variable(variables, b[1], b[2])
       /\ last' = [op |-> "set_variable", name |-> b[1], value |-> b[2]]
       /\ UNCHANGED <<lexer, pool, source, functions, roots>>

GetVariable ==
    \E name \in {"x", "y", "inf"} :
       LET o == get_variable(variables, name) IN
       /\ last' = [op |-> "get_variable", name |-> name, outcome |-> o]
       /\ UNCHANGED <<lexer, pool, source, variables, functions, roots>>

\* the (func, arity) pairs the caller registers: square with arity 1 or -1, sum
\* with arity 0 or 2
Registrations == {<<"square", 1>>, <<"square", -1>>, <<"sum", 0>>, <<"sum", 2>>}

\* register_function(name, func, arity): the int is converted to size_t
RegisterFunction ==
    \E name \in {"square", "sqrt"}, reg \in Registrations :
       LET r == register_function(functions, name, reg[1], ToSizeT(reg[2])) IN
       /\ functions' = r.functions
       /\ last' = [op |-> "register_function", name |-> name, func |-> reg[1],
                   arity |-> reg[2], outcome |-> r.outcome]
       /\ UNCHANGED <<lexer, pool, source, variables, roots>>

\* builtin::initialize()
Initialize ==
    LET r == initialize(variables, functions) IN
    /\ functions' = r.functions
    /\ variables' = r.variables
    /\ last' = [op |-> "initialize", outcome |-> r.outcome]
    /\ UNCHANGED <<lexer, pool, source, roots>>

EvalNums == {D(0), NegZero, D(1), D(-1), D(4), NaN}

\* right operands: literals, the variable x, and 1 - 1
Divisors ==
    {NumberNode(v) : v \in {D(0), NegZero, D(2), NaN, Inf(FALSE)}}
    \cup {X, BinaryOpNode("SUB", One, One)}

ArgLists ==
    {<<>>, <<NumberNode(D(2))>>, <<NumberNode(D(2)), NumberNode(D(4))>>,
     <<One, NumberNode(D(7)), NumberNode(D(3))>>, <<X>>, <<NumberNode(D(-5))>>,
     <<NumberNode(D(9))>>}

\* operands that fail, or may: the variable z (never bound), the variable x,
\* 1 / 0 and a call of a function nobody registered; and the literal 0
Operands ==
    {VariableNode("z"), X, BinaryOpNode("DIV", One, NumberNode(D(0))),
     FunctionNode("nope", <<>>), NumberNode(D(0))}

OperandTrees ==
    {BinaryOpNode(op, l, r) : op \in {"DIV", "MOD"}, l \in Operands, r \in Operands}
    \cup {FunctionNode(f, <<a, b>>) : f \in {"nope", "abs"}, a \in Operands, b \in Operands}

\* x = 2, y = x, x = nope()
AssignmentTrees ==
    {AssignmentNode("x", NumberNode(D(2))), AssignmentNode("y", X),
     AssignmentNode("x", FunctionNode("nope", <<>>))}

EvalTrees ==
    OperandTrees \cup AssignmentTrees \cup
    {BinaryOpNode(op, l, r) :
        op \in {"DIV", "MOD"}, l \in {NumberNode(D(7)), X}, r \in Divisors}
    \cup {UnaryOpNode(op, NumberNode(v)) : op \in {"LOG", "SQRT"}, v \in EvalNums}
    \cup {UnaryOpNode(op, X) : op \in {"LOG", "SQRT", "NEGATE"}}
    \cup {FunctionNode(f, <<NumberNode(v)>>) : f \in {"log", "sqrt"}, v \in EvalNums}
    \cup {FunctionNode(f, <<X>>) : f \in {"log", "sqrt"}}
    \cup {FunctionNode(f, args) :
            f \in {"abs", "min", "max", "sum", "avg", "square"}, args \in ArgLists}
    \cup {BinaryOpNode("ADD", NumberNode(D(2)),
                       BinaryOpNode("MUL", NumberNode(D(3)), NumberNode(D(4)))),
          BinaryOpNode("AND", One, One), MatrixNode(<<<<One>>>>), X, VariableNode("inf")}

Init ==
    /\ \E t \in EvalTrees :
          LET b == Build(<<>>, t) IN
          /\ roots = <<b.ptr>>
          /\ pool = b.pool
    /\ source = <<>>
    /\ last = NoCall
    /\ variables = <<>>
    /\ functions = EvalContext_functions
    /\ lexer = Lexer(<<>>)

Next == SetVariable \/ GetVariable \/ RegisterFunction \/ Initialize \/ Evaluate

Spec == Init /\ [][Next]_vars

(***************************************************************************)
(* Properties of the evaluator                                             *)
(***************************************************************************)
\* the node just evaluated, and the outcomes of evaluating its children
Evaluated == pool[last.node]
ArgOutcomes == evaluate_args(pool, ChildPtrs(Evaluated), variables, functions, <<>>)

\* C2: a call of a function registered with arity -1, with N >= 1 arguments that
\* evaluate, never fails the arity check and returns the implementation's
\* result.
C2_VariadicSkipsArityCheck ==
    /\ last.op = "evaluate" /\ last.node # nullptr
    /\ Evaluated.type = "FUNCTION"
    /\ Evaluated.name \in DOMAIN functions
    /\ functions[Evaluated.name].kind = "registered"
    /\ functions[Evaluated.name].arity = ToSizeT(-1)
    /\ Len(Evaluated.args) >= 1
    /\ ArgOutcomes.thrown = "none"
    => /\ last.outcome.msg # "Function expects arguments"
       /\ last.outcome = lambda_body(functions[Evaluated.name].func, ArgOutcomes.args)

\* C9: DIV and MOD whose operands evaluate fail with "Division by zero",
\* respectively "Modulo by zero", when the right operand is zero, and do not
\* raise that error when it is not.
C9_ZeroDivisorFails ==
    /\ last.op = "evaluate" /\ last.node # nullptr
    /\ Evaluated.type = "BINARY_OP" /\ Evaluated.op \in {"DIV", "MOD"}
    /\ ArgOutcomes.thrown = "none"
    => LET message == IF Evaluated.op = "DIV" THEN "Division by zero"
                      ELSE "Modulo by zero"
           failed == /\ last.outcome.thrown = "EvaluationError"
                     /\ last.outcome.msg = message
       IN failed <=> DEq(ArgOutcomes.args[2], D(0))

\* C9 witness: a MOD whose right operand is the variable x, set to zero, failed
C9_Witness ==
    /\ last.op = "evaluate" /\ last.node # nullptr
    /\ Evaluated.type = "BINARY_OP" /\ Evaluated.op = "MOD"
    /\ pool[Evaluated.right].type = "VARIABLE"
    /\ ArgOutcomes.thrown = "none"
    /\ IsZero(ArgOutcomes.args[2])
    /\ last.outcome.thrown = "EvaluationError"

\* C10: on both paths, UnaryOp(LOG / SQRT) and Function(log / sqrt), the
\* logarithm of an operand <= 0 and the square root of an operand < 0 fail with
\* an EvaluationError, and the square root of 0 returns 0.
C10_DomainErrorsOnBothPaths ==
    /\ last.op = "evaluate" /\ last.node # nullptr
    /\ \/ Evaluated.type = "UNARY_OP" /\ Evaluated.op \in {"LOG", "SQRT"}
       \/ /\ Evaluated.type = "FUNCTION" /\ Evaluated.name \in {"log", "sqrt"}
          /\ Len(Evaluated.args) = 1
    /\ ArgOutcomes.thrown = "none"
    => LET operand == ArgOutcomes.args[1]
           isLog == IF Evaluated.type = "UNARY_OP" THEN Evaluated.op = "LOG"
                    ELSE Evaluated.name = "log"
       IN /\ isLog /\ DLeZero(operand) => last.outcome.thrown = "EvaluationError"
          /\ ~isLog /\ DLtZero(operand) => last.outcome.thrown = "EvaluationError"
          /\ ~isLog /\ IsZero(operand) =>
                last.outcome.thrown = "none" /\ DEq(last.outcome.val, D(0))

\* C11: a call of a function registered with a fixed arity K >= 0 whose N
\* arguments evaluate fails with the arity mismatch (expects K, got N) when
\* N # K, and returns the implementation's result when N = K.
C11_FixedArityChecked ==
    /\ last.op = "evaluate" /\ last.node # nullptr
    /\ Evaluated.type = "FUNCTION"
    /\ Evaluated.name \in DOMAIN functions
    /\ functions[Evaluated.name].kind = "registered"
    /\ functions[Evaluated.name].arity # ToSizeT(-1)
    /\ ArgOutcomes.thrown = "none"
    => LET impl == functions[Evaluated.name]
           N == W(Len(Evaluated.args))
       IN IF N # impl.arity
          THEN /\ last.outcome.thrown = "EvaluationError"
               /\ last.outcome.msg = "Function expects arguments"
               /\ last.outcome.name = Evaluated.name
               /\ last.outcome.detail = <<impl.arity, N>>
          ELSE last.outcome = lambda_body(impl.func, ArgOutcomes.args)

\* C11 witness: square is registered with arity 1 and square(9) evaluated to 81
C11_Witness ==
    /\ last.op = "evaluate" /\ last.node # nullptr
    /\ Evaluated.type = "FUNCTION" /\ Evaluated.name = "square"
    /\ "square" \in DOMAIN functions
    /\ functions["square"].arity = W(1)
    /\ TreeOf(pool, last.node) = FunctionNode("square", <<NumberNode(D(9))>>)
    /\ last.outcome = Value(D(81))

\* C12: a register_function call whose name is already in the function table
\* fails with an EvaluationError and leaves the table and the variables as they
\* were; no step ever changes or removes the implementation bound to a name; and
\* builtin::initialize run when its names are registered fails.
C12_RegistrationOneShot ==
    [][/\ (last'.op = "register_function" /\ last'.name \in DOMAIN functions)
            => /\ last'.outcome.thrown = "EvaluationError"
               /\ last'.outcome.msg = "Function already registered: "
               /\ last'.outcome.name = last'.name
               /\ functions' = functions
               /\ variables' = variables
       /\ \A n \in DOMAIN functions :
             n \in DOMAIN functions' /\ functions'[n] = functions[n]
       /\ (last'.op = "initialize" /\ "abs" \in DOMAIN functions)
            => /\ last'.outcome.thrown = "EvaluationError"
               /\ functions' = functions
               /\ variables' = variables]_vars

\* C12 witness: square is bound to one implementation and a register_function
\* call offering another under that name has failed
C12_Witness ==
    /\ last.op = "register_function" /\ last.name = "square"
    /\ last.outcome.thrown = "EvaluationError"
    /\ functions["square"].func # last.func

\* what a lookup of name n in the bindings vs gives
Bound(vs, n) ==
    IF n \in DOMAIN vs THEN Value(vs[n]) ELSE EvaluationError("Undefined variable: ", n)

\* C13: set_variable binds its name to its value and changes no other binding;
\* only set_variable and builtin::initialize change the bindings, the latter
\* only those of pi, e and inf; get_variable(n) returns the binding of n and
\* fails exactly when there is none; evaluating Variable(n) gives the same.
C13_VariablesLastWriteWins ==
    [][/\ last'.op = "set_variable"
            => variables' = [k \in DOMAIN variables \cup {last'.name} |->
                                IF k = last'.name THEN last'.value ELSE variables[k]]
       /\ last'.op = "initialize"
            => \A k \in DOMAIN variables :
                  k \in DOMAIN variables'
                  /\ (k \notin {"pi", "e", "inf"} => variables'[k] = variables[k])
       /\ last'.op \notin {"set_variable", "initialize"} => variables' = variables
       /\ last'.op = "get_variable" => last'.outcome = Bound(variables, last'.name)
       /\ (last'.op = "evaluate" /\ last'.node # nullptr
           /\ pool[last'.node].type = "VARIABLE")
            => last'.outcome = Bound(variables, pool[last'.node].name)]_vars

\* C13 witness: with y bound as well, get_variable(x) returned 2
C13_Witness ==
    /\ last.op = "get_variable" /\ last.name = "x"
    /\ last.outcome = Value(D(2))
    /\ "y" \in DOMAIN variables

(***************************************************************************)
(* SpecLex: next() called again and again on a lexer over a source buffer, *)
(* also after it has thrown or returned end-of-input.  last.before is the  *)
(* lexer as the call found it, last.call the number of calls so far and    *)
(* last.ended whether one of them returned end-of-input or threw.          *)
(***************************************************************************)
Calls == IF last.op = "next" THEN last.call ELSE 0

Ended == last.op = "next" /\ last.ended

\* what a read outside the buffer and a read of an unwritten double find
Junk == {[char |-> c, value |-> v] : c \in {"\n", "?"}, v \in {D(0), NaN}}

LexNext ==
    /\ Calls < MaxCalls
    /\ \E junk \in Junk :
          LET r == next(lexer, junk) IN
          /\ lexer' = r.lexer
          /\ last' = [op |-> "next", call |-> Calls + 1, before |-> lexer,
                      thrown |-> r.thrown, error |-> r.error, token |-> r.token,
                      oob |-> r.oob,
                      ended |-> Ended \/ r.thrown # "none" \/ r.token.type = "EOF"]
    /\ UNCHANGED <<pool, source, variables, functions, roots>>

LexAlphabet == {"1", "e", ".", "+", "\"", "\\", "=", " ", "a", "#", "\n"}

ShortTexts == SeqsUpTo(LexAlphabet, MaxChars)

NumeralTexts == SeqsUpTo({"1", "e", ".", "+"}, MaxNumeralChars)

StringTexts == SeqsUpTo({"\"", "\\", "a"}, MaxStringChars)

OtherTexts ==
    {<<"1", "e", "5", ".", "3">>, <<"1", "e", "9", "9", "9">>,
     <<"1", "e", "-", "9", "9", "9">>, <<"0", ".", "5">>, <<"2", "5", "e", "-", "2">>,
     <<"l", "e", "t", " ", "x", "_", "1">>, <<"w", "h", "i", "l", "e">>,
     <<"<", "=", "-", ">", "*", "*">>, <<"(", "[", "{", ",", ";", ":">>,
     <<"\"", "a", "\n", "b", "\"">>, <<"\r", "\n", "\t", "1">>, <<"\r", "1">>,
     <<"#", "a", "\n", "1">>, <<"@">>}

LexSources == ShortTexts \cup NumeralTexts \cup StringTexts \cup OtherTexts

InitLex ==
    /\ lexer \in {Lexer(src) : src \in LexSources}
    /\ pool = <<>>
    /\ source = <<>>
    /\ roots = <<>>
    /\ last = NoCall
    /\ variables = <<>>
    /\ functions = EvalContext_functions

NextLex == LexNext

SpecLex == InitLex /\ [][NextLex]_vars

\* C14: once next() has returned the end-of-input token, the next call
\* returns an end-of-input token too, without error and with the cursor
\* where it was.
C14_EofIsSticky ==
    [][(last.op = "next" /\ last.thrown = "none" /\ last.token.type = "EOF")
         => /\ last'.op = "next"
            /\ last'.thrown = "none"
            /\ last'.token.type = "EOF"
            /\ lexer'.pos_ = lexer.pos_]_vars

\* C14 witness: a call made after end-of-input was returned gave end-of-input
\* again, on a source that holds tokens
C14_Witness ==
    /\ last.op = "next" /\ last.call >= 3
    /\ last.token.type = "EOF"
    /\ last.before.pos_ = Len(lexer.source_)
    /\ lexer.pos_ = Len(lexer.source_)

\* C15: every token next() returns, other than end-of-input, carries a
\* non-empty text.
C15_TokensCarryText ==
    (last.op = "next" /\ last.thrown = "none" /\ last.token.type # "EOF")
        => last.token.text # <<>>

AllDigits(t) == \A k \in 1..Len(t) : isdigit(t[k])

\* digits with at most one decimal point among them, and a digit somewhere
Mantissa(t) ==
    \E p \in 0..Len(t) :
       /\ AllDigits(SubSeq(t, 1, p))
       /\ \/ p = Len(t) /\ p > 0
          \/ /\ p < Len(t) /\ t[p + 1] = "."
             /\ AllDigits(SubSeq(t, p + 2, Len(t)))
             /\ Len(t) > 1

\* nothing, or an exponent marker, at most one sign, and digits
Exponent(t) ==
    \/ t = <<>>
    \/ /\ t[1] \in {"e", "E"}
       /\ LET r == Tail(t)
              d == IF r # <<>> /\ r[1] \in {"+", "-"} THEN Tail(r) ELSE r
          IN d # <<>> /\ AllDigits(d)

WellFormedNumeral(t) ==
    \E a \in 1..Len(t) : Mantissa(SubSeq(t, 1, a)) /\ Exponent(SubSeq(t, a + 1, Len(t)))

\* C16: the text of every NUMBER token is a well-formed numeral (one
\* mantissa with at most one decimal point, then at most one exponent
\* marker with an optional sign and its digits, no decimal point after it).
C16_NumberSpanWellFormed ==
    (last.op = "next" /\ last.thrown = "none" /\ last.token.type = "NUMBER")
        => WellFormedNumeral(last.token.text)

\* the lexer where next() finds its token: past white space and comments
RECURSIVE TokenStart(_)
TokenStart(lx) ==
    LET a == skip_whitespace(lx) IN
    IF a.pos_ < Len(a.source_) /\ CharAt(a, a.pos_) = "#"
    THEN TokenStart(skip_comment(a))
    ELSE a

\* the index of the first quote at or after index i of s that no backslash
\* escapes, a backslash escaping the character after it; -1 if there is none
RECURSIVE ClosingQuote(_, _)
ClosingQuote(s, i) ==
    IF i >= Len(s) THEN 0 - 1
    ELSE IF s[i + 1] = "\"" THEN i
    ELSE IF s[i + 1] = "\\" THEN ClosingQuote(s, i + 2)
    ELSE ClosingQuote(s, i + 1)

\* C17: a call of next() that finds an opening quote returns the STRING
\* token that ends at the first quote no backslash escapes, and fails with
\* LexError "Unterminated string literal", returning no token, when the
\* source has no such quote.
C17_StringEndsAtUnescapedQuote ==
    last.op = "next" =>
        LET start == TokenStart(last.before)
            src == start.source_
            q == ClosingQuote(src, start.pos_ + 1)
        IN (start.pos_ < Len(src) /\ CharAt(start, start.pos_) = "\"") =>
              IF q = 0 - 1
              THEN /\ last.thrown = "LexError"
                   /\ last.error.message = "Unterminated string literal"
                   /\ last.token = NoToken
              ELSE /\ last.thrown = "none"
                   /\ last.token.type = "STRING"
                   /\ last.token.text = SubSeq(src, start.pos_ + 2, q)
                   /\ lexer.pos_ = q + 1

\* C17 witness: a string whose only later quote is escaped, and which ends
\* with a backslash, was refused as unterminated
C17_Witness ==
    /\ last.op = "next" /\ last.thrown = "LexError"
    /\ last.error.message = "Unterminated string literal"
    /\ last.before.source_ = <<"\"", "a", "\\", "\"", "\\">>

RECURSIVE RowTrees(_)
RowTrees(rows) ==
    IF rows = <<>> THEN <<>> ELSE <<ArgTrees(rows[1])>> \o RowTrees(Tail(rows))

\* the nested form [[e11,...],[e21,...],...] parses to a Matrix with one
\* row per sub-list
NestedMatrixParses ==
    \A rows \in NestedMatrices :
        (Parsed /\ source = NestedMatrixSource(rows))
            => /\ last.thrown = "none"
               /\ ParsedTree = MatrixNode(RowTrees(rows))

\* C18: [e1,...,en] parses to a Matrix with a single row holding e1..en in
\* order, [] to a Matrix with no rows, and the nested form to one row per
\* sub-list.
C18_MatrixRows ==
    /\ \A es \in FlatMatrices :
          (Parsed /\ source = FlatMatrixSource(es))
              => /\ last.thrown = "none"
                 /\ ParsedTree = MatrixNode(IF es = <<>> THEN <<>> ELSE <<ArgTrees(es)>>)
    /\ NestedMatrixParses

\* the outcome of evaluating node i of the arena in the global context; for
\* the node just evaluated, the outcome the call had
OutcomeAt(i) ==
    IF i = last.node THEN last.outcome ELSE evaluate(pool, i, variables, functions)

\* the first position (left to right) of kids whose evaluation fails, 0 if none
FirstFailing(kids) ==
    LET failing == {k \in 1..Len(kids) : OutcomeAt(kids[k]).thrown # "none"} IN
    IF failing = {} THEN 0 ELSE CHOOSE k \in failing : \A j \in failing : k <= j

\* C19: when an operand of a BinaryOp or UnaryOp, or an argument of a
\* Function, fails to evaluate, the node fails with the error of the leftmost
\* failing one, whatever the operator or callee is (a zero divisor, an
\* unknown function name).
C19_LeftmostFailureSurfaces ==
    last.op = "evaluate" /\ last.node # nullptr =>
        \A i \in 1..Len(pool) :
            pool[i].type \in {"BINARY_OP", "UNARY_OP", "FUNCTION"} =>
                LET kids == ChildPtrs(pool[i])
                    k == FirstFailing(kids)
                IN k # 0 => OutcomeAt(i) = OutcomeAt(kids[k])

\* C19 witness: nope(z, 1/0) failed with the error of z, not with that of
\* 1/0 or of the unknown function
C19_Witness ==
    /\ last.op = "evaluate" /\ last.node # nullptr
    /\ TreeOf(pool, last.node) =
          FunctionNode("nope", <<VariableNode("z"),
                                 BinaryOpNode("DIV", One, NumberNode(D(0)))>>)
    /\ last.outcome = EvaluationError("Undefined variable: ", "z")

\* the tree at node i of arena p is built from Number, BinaryOp and UnaryOp
RECURSIVE Arithmetic(_, _)
Arithmetic(p, i) ==
    /\ i # nullptr
    /\ \/ p[i].type = "NUMBER"
       \/ /\ p[i].type \in {"BINARY_OP", "UNARY_OP"}
          /\ \A k \in 1..Len(ChildPtrs(p[i])) : Arithmetic(p, ChildPtrs(p[i])[k])

\* the same double: equal under ==, or both NaN
SameValue(a, b) == DEq(a, b) \/ (IsNaN(a) /\ IsNaN(b))

\* C20: when evaluate succeeds with v on a tree of Number, BinaryOp and
\* UnaryOp nodes, simplify returns a tree on which evaluate succeeds with v.
C20_SimplifyPreservesValue ==
    (last.op = "simplify" /\ Arithmetic(pool, last.node)) =>
        LET before == evaluate(pool, last.node, variables, functions) IN
        (before.thrown = "none" /\ ~IsUnk(before.val)) =>
            /\ last.thrown = "none"
            /\ LET after == evaluate(pool, last.ret, variables, functions) IN
               after.thrown = "none" /\ SameValue(after.val, before.val)

\* C21: a call of evaluate, whether it returns or fails and whatever the
\* tree (an Assignment included), leaves the variable bindings and the
\* function table as they were; the bindings change only in set_variable
\* (and builtin::initialize, which calls it) and the function table only in
\* register_function (and builtin::initialize, which calls it).
C21_EvaluateKeepsEnvironment ==
    [][/\ last'.op = "evaluate" => (variables' = variables /\ functions' = functions)
       /\ variables' # variables => last'.op \in {"set_variable", "initialize"}
       /\ functions' # functions => last'.op \in {"register_function", "initialize"}]_vars

\* C21 witness: with x bound to 0, the Assignment x = 2 was evaluated and x
\* is still 0
C21_Witness ==
    /\ last.op = "evaluate" /\ last.node # nullptr
    /\ TreeOf(pool, last.node) = AssignmentNode("x", NumberNode(D(2)))
    /\ "x" \in DOMAIN variables /\ variables["x"] = D(0)

\* C22: no call of next() reads source_ at an index >= its length.
C22_ReadsInBounds == last.op = "next" => ~last.oob

\* the identifiers of the token stream that some token other than "(" follows,
\* and "(" nowhere
NotCalled(toks) ==
    {toks[i].text : i \in {j \in 1..Len(toks) - 1 :
                             /\ toks[j].type = "IDENTIFIER"
                             /\ toks[j + 1].type # "LPAREN"}}
    \ {toks[i].text : i \in {j \in 1..Len(toks) - 1 :
                               /\ toks[j].type = "IDENTIFIER"
                               /\ toks[j + 1].type = "LPAREN"}}

\* the names of the Function nodes of the tree at ptr
FunctionNames(p, ptr) ==
    LET nodes == PreOrder(p, ptr) IN
    {p[nodes[k]].name : k \in {j \in 1..Len(nodes) : p[nodes[j]].type = "FUNCTION"}}

\* C23: the tree parse returns holds no Function node named after an
\* identifier that the token stream follows with a token other than "(".
C23_FunctionOnlyBeforeParen ==
    (Parsed /\ last.thrown = "none")
        => FunctionNames(pool, last.node) \cap NotCalled(source) = {}

\* the number of characters of the source a token spans
SpanWidth(tok) ==
    IF tok.type = "STRING" THEN Len(tok.text) + 2
    ELSE IF tok.type \in {multi_char_ops[k] : k \in DOMAIN multi_char_ops} THEN 2
    ELSE IF tok.type \in {single_char_tokens[k] : k \in DOMAIN single_char_tokens} THEN 1
    ELSE Len(tok.text)

\* the index of the first line feed of s at or after index i, Len(s) if none
RECURSIVE LineEnd(_, _)
LineEnd(s, i) == IF i >= Len(s) \/ s[i + 1] = "\n" THEN i ELSE LineEnd(s, i + 1)

\* C24: a call of next() that returns a token other than end-of-input
\* leaves the cursor further on than it found it; a call that finds a
\* comment returns no token of it: the cursor ends at or after the end of
\* the comment's line and the token returned, if any, lies after it; and
\* on a source of length L one of the first L + 1 calls returns
\* end-of-input or throws.
C24_LexingProgresses ==
    last.op = "next" =>
        LET start == skip_whitespace(last.before)
            src == start.source_
            returned == last.thrown = "none" /\ last.token.type # "EOF"
        IN /\ returned => lexer.pos_ > last.before.pos_
           /\ (start.pos_ < Len(src) /\ CharAt(start, start.pos_) = "#")
                 => /\ lexer.pos_ >= LineEnd(src, start.pos_)
                    /\ returned
                         => lexer.pos_ - SpanWidth(last.token) >= LineEnd(src, start.pos_)
           /\ last.call >= Len(src) + 1 => last.ended

\* C24 witness: on the source +.+ three calls returned tokens and the
\* fourth end-of-input
C24_Witness ==
    /\ last.op = "next" /\ last.call = 4
    /\ lexer.source_ = <<"+", ".", "+">>
    /\ last.token.type = "EOF"
    /\ last.before.pos_ = 3

\* C24 witness of the comment: on the source #a, line feed, 1 the first call
\* returned the NUMBER after the comment
C24_CommentWitness ==
    /\ last.op = "next" /\ last.call = 1
    /\ lexer.source_ = <<"#", "a", "\n", "1">>
    /\ last.token.type = "NUMBER" /\ last.token.text = <<"1">>

====
